---- MODULE Spec2Model ----
(***************************************************************************)
(* CustQR: the QR preview / regeneration machinery, the logo upload         *)
(* pipeline and the export pipeline of the three implementations            *)
(*   enterprise : src/src/components/Logo.tsx        (QRGenerator)          *)
(*   baseline   : src/src/components/QRGenerator.tsx (QRGenerator)          *)
(*   vanilla    : src/public/js/script.js            (CustQRGenerator)      *)
(*                                                                         *)
(* Text is modelled as sequences:                                          *)
(*   - a URL is a sequence of tokens (strings): a scheme token, a host      *)
(*     token with a dot, the blank " ", or a plain word;                    *)
(*   - a color and a numeric input are sequences of character codes.        *)
(* The external QR encoder is a function of its arguments: its output is    *)
(* represented by the record of the arguments that determine it, and it     *)
(* throws when the text exceeds the capacity of the error-correction level. *)
(* Time is abstracted: a pending timer may fire at any moment.              *)
(***************************************************************************)
EXTENDS Integers, Sequences, FiniteSets, TLC

(***************************************************************************)
(* Bounds of the model                                                      *)
(***************************************************************************)
MaxTimers   == 4    \* size of the pool of timer ids
MaxPending  == 2    \* encoder calls and image pre-loads awaiting completion at once
MaxInputs   == 2    \* user input events in one behaviour
MaxUrls     == 4    \* size of the pool of object URL ids
MaxText     == 3        \* characters of a text handed to a validator

(***************************************************************************)
(* Character codes of color text and numeric text                           *)
(***************************************************************************)
Hash   == 16        \* '#'   (hex digits are the codes 0..15)
NonHex == 17        \* any character that is not a hex digit or '#'
Space  == 10        \* ' '   (decimal digits are the codes 0..9)
Minus  == 11        \* '-'
Letter == 12        \* any other character

DefaultDark  == <<Hash, 1, 14, 2, 9, 3, 11>>           \* '#1e293b'
DefaultLight == <<Hash, 15, 15, 15, 15, 15, 15>>       \* '#ffffff'
BlackColor   == <<Hash, 0, 0, 0, 0, 0, 0>>             \* '#000000'
MaskWhite    == <<Hash, 15, 15, 15, 15, 15, 15>>       \* '#ffffff'
Transparent  == <<Hash, 0, 0, 0, 0, 0, 0, 0, 0>>       \* '#00000000'

Min2(a, b) == IF a < b THEN a ELSE b
Max2(a, b) == IF a > b THEN a ELSE b

(***************************************************************************)
(* validateHexColor: /^#([A-Fa-f0-9]{6}|[A-Fa-f0-9]{3})$/                   *)
(***************************************************************************)
validateHexColor(color) ==
    /\ color # <<>>
    /\ Len(color) \in {4, 7}
    /\ color[1] = Hash
    /\ \A i \in 2..Len(color) : color[i] \in 0..15

(***************************************************************************)
(* calculateLuminance: parseInt(hex.slice(1), 16), channels by shifts, then *)
(* the sRGB linearisation.  Linearised channels are tabulated in units of   *)
(* 1/10000, the luminance is in units of 1/100000000.                       *)
(***************************************************************************)
RECURSIVE HexValue(_)
HexValue(digits) ==
    IF digits = <<>> THEN 0
    ELSE 16 * HexValue(SubSeq(digits, 1, Len(digits) - 1)) + digits[Len(digits)]

Linear ==
   << 0, 3, 6, 9, 12, 15, 18, 21, 24, 27, 30, 33, 37, 40, 44, 48,
      52, 56, 60, 65, 70, 75, 80, 86, 91, 97, 103, 110, 116, 123, 130, 137,
      144, 152, 160, 168, 176, 185, 194, 203, 212, 222, 232, 242, 252, 262, 273, 284,
      296, 307, 319, 331, 343, 356, 369, 382, 395, 409, 423, 437, 452, 467, 482, 497,
      513, 529, 545, 561, 578, 595, 612, 630, 648, 666, 685, 704, 723, 742, 762, 782,
      802, 823, 844, 865, 887, 908, 931, 953, 976, 999, 1022, 1046, 1070, 1095, 1119, 1144,
      1170, 1195, 1221, 1248, 1274, 1301, 1329, 1356, 1384, 1413, 1441, 1470, 1500, 1529, 1559, 1590,
      1620, 1651, 1683, 1714, 1746, 1779, 1812, 1845, 1878, 1912, 1946, 1981, 2016, 2051, 2086, 2122,
      2159, 2195, 2232, 2270, 2307, 2346, 2384, 2423, 2462, 2502, 2542, 2582, 2623, 2664, 2705, 2747,
      2789, 2831, 2874, 2918, 2961, 3005, 3050, 3095, 3140, 3185, 3231, 3278, 3325, 3372, 3419, 3467,
      3515, 3564, 3613, 3663, 3712, 3763, 3813, 3864, 3916, 3968, 4020, 4072, 4125, 4179, 4233, 4287,
      4342, 4397, 4452, 4508, 4564, 4621, 4678, 4735, 4793, 4851, 4910, 4969, 5029, 5089, 5149, 5210,
      5271, 5333, 5395, 5457, 5520, 5583, 5647, 5711, 5776, 5841, 5906, 5972, 6038, 6105, 6172, 6240,
      6308, 6376, 6445, 6514, 6584, 6654, 6724, 6795, 6867, 6939, 7011, 7084, 7157, 7231, 7305, 7379,
      7454, 7529, 7605, 7682, 7758, 7835, 7913, 7991, 8070, 8148, 8228, 8308, 8388, 8469, 8550, 8632,
      8714, 8796, 8879, 8963, 9047, 9131, 9216, 9301, 9387, 9473, 9560, 9647, 9734, 9823, 9911, 10000 >>

calculateLuminance(hex) ==
    LET rgb == HexValue(SubSeq(hex, 2, Len(hex)))
        r   == (rgb \div 65536) % 256
        g   == (rgb \div 256) % 256
        b   == rgb % 256
    IN  2126 * Linear[r + 1] + 7152 * Linear[g + 1] + 722 * Linear[b + 1]

(***************************************************************************)
(* validateColorContrast: the result record; contrastRatio is kept as the   *)
(* pair (numerator, denominator) of (max(L)+0.05) / (min(L)+0.05).          *)
(***************************************************************************)
\* the error of validateHexColor's result, "" when there is none
HexColorError(color) ==
    IF color = <<>> THEN "Color is required"
    ELSE IF ~validateHexColor(color)
    THEN "Invalid hex color format (use #RRGGBB or #RGB)"
    ELSE ""

\* validateColorContrast without the warning of a low contrast
validateColorContrastNoWarning(darkColor, lightColor) ==
    IF ~validateHexColor(darkColor) \/ ~validateHexColor(lightColor)
    THEN [isValid |-> FALSE, hasRatio |-> FALSE, num |-> 0, den |-> 1,
          hasScannable |-> FALSE, scannable |-> FALSE, warning |-> FALSE,
          error |-> IF HexColorError(darkColor) # ""
                    THEN HexColorError(darkColor)
                    ELSE HexColorError(lightColor)]
    ELSE LET darkLum  == calculateLuminance(darkColor)
             lightLum == calculateLuminance(lightColor)
             num      == Max2(darkLum, lightLum) + 5000000
             den      == Min2(darkLum, lightLum) + 5000000
         IN  [isValid |-> TRUE, hasRatio |-> TRUE, num |-> num, den |-> den,
              hasScannable |-> TRUE, scannable |-> num >= 3 * den,
              warning |-> FALSE, error |-> ""]

validateColorContrast(darkColor, lightColor) ==
    IF ~validateHexColor(darkColor) \/ ~validateHexColor(lightColor)
    THEN [isValid |-> FALSE, hasRatio |-> FALSE, num |-> 0, den |-> 1,
          hasScannable |-> FALSE, scannable |-> FALSE, warning |-> FALSE,
          error |-> IF HexColorError(darkColor) # ""
                    THEN HexColorError(darkColor)
                    ELSE HexColorError(lightColor)]
    ELSE LET darkLum  == calculateLuminance(darkColor)
             lightLum == calculateLuminance(lightColor)
             num      == Max2(darkLum, lightLum) + 5000000
             den      == Min2(darkLum, lightLum) + 5000000
             scan     == num >= 3 * den
         IN  [isValid |-> TRUE, hasRatio |-> TRUE, num |-> num, den |-> den,
              hasScannable |-> TRUE, scannable |-> scan, warning |-> ~scan,
              error |-> ""]

(***************************************************************************)
(* parseInt(value, 10): blanks skipped, an optional sign, then the longest  *)
(* prefix of decimal digits; NaN when there is no digit.                    *)
(***************************************************************************)
RECURSIVE SkipSpaces(_)
SkipSpaces(s) ==
    IF s # <<>> /\ s[1] = Space THEN SkipSpaces(Tail(s)) ELSE s

RECURSIVE DigitPrefix(_)
DigitPrefix(s) ==
    IF s # <<>> /\ s[1] \in 0..9 THEN <<s[1]>> \o DigitPrefix(Tail(s)) ELSE <<>>

RECURSIVE DecValue(_)
DecValue(digits) ==
    IF digits = <<>> THEN 0
    ELSE 10 * DecValue(SubSeq(digits, 1, Len(digits) - 1)) + digits[Len(digits)]

ParseInt(value) ==
    LET t    == SkipSpaces(value)
        neg  == t # <<>> /\ t[1] = Minus
        body == IF neg THEN Tail(t) ELSE t
        ds   == DigitPrefix(body)
    IN  IF ds = <<>> THEN [nan |-> TRUE, val |-> 0]
        ELSE [nan |-> FALSE, val |-> IF neg THEN 0 - DecValue(ds) ELSE DecValue(ds)]

(***************************************************************************)
(* validateNumericInput(value, min, max, defaultValue)                      *)
(***************************************************************************)
validateNumericInput(value, min, max, defaultValue) ==
    IF value = <<>> \/ SkipSpaces(value) = <<>>
    THEN [isValid |-> TRUE, parsedValue |-> defaultValue]
    ELSE LET n == ParseInt(value)
         IN  IF n.nan
             THEN [isValid |-> FALSE, parsedValue |-> defaultValue]
             ELSE IF n.val < min \/ n.val > max
                  THEN [isValid |-> FALSE,
                        parsedValue |-> Max2(min, Min2(max, n.val))]
                  ELSE [isValid |-> TRUE, parsedValue |-> n.val]

(***************************************************************************)
(* URL text: tokens                                                         *)
(***************************************************************************)
Schemes      == {"http://", "https://"}
OtherSchemes == {"ftp://"}               \* a special scheme that is not http(s)
ColonToks == {"localhost:"}              \* a lower-case name and ':'
HostToks  == {"a.com", "x1500.com"}      \* lower-case host with a dot and a TLD
WordToks  == {"not", "a", "url"}         \* lower-case words without a dot
DigitToks == {"8080"}                    \* decimal digits
PlainToks == HostToks \cup WordToks \cup DigitToks \cup {" "}

RECURSIVE TrimLeft(_)
TrimLeft(s) == IF s # <<>> /\ s[1] = " " THEN TrimLeft(Tail(s)) ELSE s

RECURSIVE TrimRight(_)
TrimRight(s) ==
    IF s # <<>> /\ s[Len(s)] = " "
    THEN TrimRight(SubSeq(s, 1, Len(s) - 1)) ELSE s

Trim(s) == TrimRight(TrimLeft(s))

StartsWithScheme(s, scheme) == s # <<>> /\ s[1] = scheme

\* /^(https?:\/\/)?([\da-z.-]+)\.([a-z.]{2,6})([/\w .-]*)*\/?$/ : after the
\* optional scheme there is no ':', and a host token (the dot and its TLD)
\* is preceded by no blank; what follows it is path text.
UrlPatternTest(input) ==
    \E rest \in {IF input # <<>> /\ input[1] \in Schemes
                 THEN Tail(input) ELSE input} :
        /\ \A i \in DOMAIN rest : rest[i] \in PlainToks
        /\ \E i \in DOMAIN rest : /\ rest[i] \in HostToks
                                  /\ \A k \in 1..(i - 1) : rest[k] # " "

\* new URL(s) succeeds, for a text whose first ':' is in its first token
\* that is not a blank: blanks at both ends are stripped and a scheme is
\* required.  After "localhost:" comes an opaque path.  After a special
\* scheme comes the host, not empty and without a blank; it ends at the end
\* of the text, at the "//" of a later scheme token (an empty port, then the
\* path) or at a later ':' (then the port, one number, ends the text).
ParsesAsUrl(s) ==
    \E t \in {Trim(s)} :
        /\ t # <<>>
        /\ \/ t[1] \in ColonToks
           \/ /\ t[1] \in Schemes \cup OtherSchemes
              /\ \E rest \in {Tail(t)} :
                 \E colons \in {{i \in DOMAIN rest :
                                   rest[i] \in Schemes \cup OtherSchemes
                                               \cup ColonToks}} :
                    IF colons = {}
                    THEN rest # <<>> /\ \A i \in DOMAIN rest : rest[i] # " "
                    ELSE \E k \in colons :
                            /\ \A m \in colons : k <= m
                            /\ \A i \in 1..(k - 1) : rest[i] # " "
                            /\ rest[k] \in ColonToks
                               => \/ Len(rest) = k
                                  \/ /\ Len(rest) = k + 1
                                     /\ rest[k + 1] \in DigitToks

\* validateUrl with the prefixed retry made whenever the text is not an
\* http(s) URL, not only when new URL(input) throws
validateUrlRetryAlways(input) ==
    IF input = <<>> THEN FALSE
    ELSE IF UrlPatternTest(input) THEN TRUE
    ELSE IF ParsesAsUrl(input) /\ Trim(input)[1] \in Schemes THEN TRUE
    ELSE ParsesAsUrl(<<"https://">> \o input)

validateUrl(input) ==
    IF input = <<>> THEN FALSE
    ELSE IF UrlPatternTest(input) THEN TRUE
    ELSE IF ParsesAsUrl(input)
         THEN Trim(input)[1] \in Schemes        \* protocol.startsWith('http')
         ELSE ParsesAsUrl(<<"https://">> \o input)  \* catch: retry with the prefix

\* sanitizeUrl prefixing the input instead of the trimmed text
sanitizeUrlPrefixInput(input) ==
    LET trimmed == Trim(input)
    IN  IF ~StartsWithScheme(trimmed, "http://") /\ ~StartsWithScheme(trimmed, "https://")
        THEN <<"https://">> \o input
        ELSE trimmed

sanitizeUrl(input) ==
    LET trimmed == Trim(input)
    IN  IF ~StartsWithScheme(trimmed, "http://") /\ ~StartsWithScheme(trimmed, "https://")
        THEN <<"https://">> \o trimmed
        ELSE trimmed

(***************************************************************************)
(* The external encoder (qrcode): a function of the text and the options.   *)
(* The byte capacities are those of the largest QR symbol (version 40).     *)
(***************************************************************************)
TokenLength(tok) ==
    CASE tok = "https://"  -> 8
      [] tok = "http://"   -> 7
      [] tok = "ftp://"    -> 6
      [] tok = "a.com"     -> 5
      [] tok = "x1500.com" -> 1500
      [] tok = "not"       -> 3
      [] tok = "url"       -> 3
      [] tok = "localhost:" -> 10
      [] tok = "8080"      -> 4
      [] OTHER             -> 1

RECURSIVE TextLength(_)
TextLength(text) ==
    IF text = <<>> THEN 0 ELSE TokenLength(text[1]) + TextLength(Tail(text))

Capacity(level) ==
    CASE level = "L" -> 2953
      [] level = "M" -> 2331
      [] level = "Q" -> 1663
      [] OTHER       -> 1273

EncoderThrows(text, opts) == TextLength(text) > Capacity(opts.errorCorrectionLevel)

Encode(text, opts) == [text |-> text, options |-> opts]

(***************************************************************************)
(* State                                                                    *)
(***************************************************************************)
VARIABLES
    impl,                \* "enterprise" | "baseline" | "vanilla"
    mounted,             \* the React component is mounted
    url,                 \* url state / value of #url-input
    options,             \* QROptions
    timers,              \* the pending timers of the browser
    timeoutId,           \* timer id held by the cleanup of the 500 ms effect (0: none)
    colorDebounceTimer,  \* colorDebounceTimer.current (0: null)
    effect2Cleanup,      \* the 300 ms effect returned a cleanup on its last run
    debounceTimer,       \* CustQRGenerator.debounceTimer (0: null)
    inflight,            \* encoder calls awaiting completion, oldest first
    preloads,            \* image pre-loads of updateQrDisplay, oldest first
    qrDataUrl,           \* qrDataUrl state
    displayQrUrl,        \* displayQrUrl state
    isGenerating,        \* CustQRGenerator.isGenerating
    generateBtnDisabled, \* #generate-btn.disabled
    currentQRData,       \* CustQRGenerator.currentQRData (<<>>: null)
    qrCanvas,            \* what #qr-canvas holds
    qrHidden,            \* #qr-canvas and the download section are hidden
    toast,               \* title of the last notification
    lastSched,           \* history: id of the timer scheduled last, per class
    staleWrite,          \* history: the last step let a superseded completion
                         \*          change the preview state
    burst,               \* history: -1, or the number of encoder invocations
                         \*          since the last change of a width burst
    lastGen,             \* history: outcome of the encoder call completed last
    inputs,              \* history: number of user input events so far
    logo,                \* logo state / CustQRGenerator.currentLogo
    logoInfo,            \* logoInfo state (<<>>: null)
    isUploading,         \* isUploading state
    objectUrlRef,        \* objectUrlRef.current (0: null)
    liveUrls,            \* object URLs created and not revoked
    uploads,             \* logo uploads awaiting a load, oldest first
    exports,             \* downloadQR calls awaiting a step, oldest first
    saved,               \* the files handed to the browser for saving
    lastExport,          \* history: how the export that ended last went
    lastValid,           \* history: the last valid hex value each color held
    focusLost,           \* history: the color text field that lost focus in
                         \*          the last step ("none": no field did)
    args,                \* the arguments of a call of a pure function
    result               \* whether the call returned, and its value

previewVars ==
    <<impl, mounted, url, options, timers, timeoutId, colorDebounceTimer,
      effect2Cleanup, debounceTimer, inflight, preloads, qrDataUrl,
      displayQrUrl, isGenerating, generateBtnDisabled, currentQRData,
      qrCanvas, qrHidden, toast, lastSched, staleWrite, burst, lastGen,
      inputs>>

logoVars == <<logo, logoInfo, isUploading, objectUrlRef, liveUrls, uploads>>

exportVars == <<exports, saved, lastExport>>

\* the state of the preview that no logo or export handler writes
colorVars == <<lastValid, focusLost>>
callVars == <<args, result>>

previewOnly ==
    <<url, options, timeoutId, colorDebounceTimer, effect2Cleanup,
      debounceTimer, inflight, preloads, qrDataUrl, displayQrUrl, isGenerating,
      generateBtnDisabled, currentQRData, qrCanvas, lastSched, staleWrite,
      burst, lastGen,
      lastValid, focusLost, args, result>>

React == {"enterprise", "baseline"}
Impls == React \cup {"vanilla"}

InitOptions ==
    [errorCorrectionLevel |-> "M", width |-> 256, margin |-> 2,
     color |-> [dark |-> DefaultDark, light |-> DefaultLight]]

NoQR == [text |-> <<>>, options |-> InitOptions]

(***************************************************************************)
(* Inputs                                                                   *)
(***************************************************************************)
UrlInputs    == { <<>>, <<"not", " ", "a", " ", "url">>, <<"a.com">>,
                  <<"x1500.com", " ">> }
LevelInputs  == {"M", "H"}
SelectWidths == {<<1, 2, 8>>, <<2, 5, 6>>}                    \* SelectItem values
RawWidths    == {<<1, 2, 8>>, <<2, 0, 0, 0>>}                 \* "128", "2000"
RawMargins   == {<<0>>, <<1, 5>>}                              \* "0", "15"
DarkPicks    == {DefaultDark, BlackColor}
LightPicks   == {DefaultLight, BlackColor}

(***************************************************************************)
(* Browser timers                                                           *)
(***************************************************************************)
TimerIds == 1..MaxTimers

ClearTimeout(ts, id) == {t \in ts : t.id # id}

AvailIds(ts, held) == TimerIds \ ({t.id : t \in ts} \cup held)

FreshId(ts, held) ==
    CHOOSE i \in AvailIds(ts, held) : \A j \in AvailIds(ts, held) : i <= j

Timer(id, class, u, o) ==
    [id |-> id, class |-> class, url |-> u, options |-> o, obj |-> 0]

\* setTimeout(() => URL.revokeObjectURL(...), delay)
RevokeTimer(id, class, obj) ==
    [id |-> id, class |-> class, url |-> <<>>, options |-> InitOptions,
     obj |-> obj]

\* a cleanup that forgets the timer
Effect1CleanupNone(ts, id) == ts

\* return () => clearTimeout(timeoutId)
Effect1Cleanup(ts, id) == ClearTimeout(ts, id)

\* if (colorDebounceTimer.current) clearTimeout(colorDebounceTimer.current)
ClearColorDebounce(ts, ref) == IF ref # 0 THEN ClearTimeout(ts, ref) ELSE ts

\* clearTimeout(this.debounceTimer)
ClearDebounce(ts, ref) == ClearTimeout(ts, ref)

(***************************************************************************)
(* updateQrDisplay(newQrDataUrl) for a non-empty argument: an image is      *)
(* pre-loaded; displayQrUrl is set when the load ends (onload or onerror).  *)
(***************************************************************************)
updateQrDisplay(pl, newQrDataUrl) ==
    Append(pl, [qr |-> newQrDataUrl, superseded |-> FALSE])

(***************************************************************************)
(* One render of the React component and the effects it runs.               *)
(*   u, o, q, d    : url, options, qrDataUrl, displayQrUrl of the render    *)
(*   fl, pl        : the encoder calls and pre-loads before the effects     *)
(*   genChanged    : generateQRWithValidation is a new function             *)
(*   qrChanged, dispChanged : qrDataUrl / displayQrUrl changed              *)
(* The result holds the timers, the handles and the pre-loads afterwards;   *)
(* ok is false when the model's pools are exhausted.                        *)
(***************************************************************************)
RunEffects(u, o, q, d, fl, pl, genChanged, qrChanged, dispChanged) ==
    LET run1   == genChanged
        run2   == genChanged \/ qrChanged
        run3   == qrChanged \/ dispChanged
        \* cleanups of the effects that run again
        c1     == IF run1 THEN Effect1Cleanup(timers, timeoutId) ELSE timers
        c2     == IF run2 /\ effect2Cleanup
                  THEN ClearColorDebounce(c1, colorDebounceTimer) ELSE c1
        \* effect of Logo.tsx 481-488 / QRGenerator.tsx 276-283
        sched1 == run1 /\ u # <<>> /\ validateUrl(u)
        ok1    == ~sched1 \/ AvailIds(c2, {colorDebounceTimer}) # {}
        id1    == IF sched1 /\ ok1 THEN FreshId(c2, {colorDebounceTimer}) ELSE 0
        t1     == IF sched1 THEN c2 \cup {Timer(id1, "url500", u, o)} ELSE c2
        tid    == IF run1 THEN id1 ELSE timeoutId
        \* effect of Logo.tsx 492-511 / QRGenerator.tsx 287-306
        sched2 == run2 /\ u # <<>> /\ validateUrl(u) /\ q # NoQR
        c3     == IF sched2 THEN ClearColorDebounce(t1, colorDebounceTimer) ELSE t1
        ok2    == ~sched2 \/ AvailIds(c3, {tid}) # {}
        id2    == IF sched2 /\ ok2 THEN FreshId(c3, {tid}) ELSE 0
        t2     == IF sched2 THEN c3 \cup {Timer(id2, "struct300", u, o)} ELSE c3
        \* effect of Logo.tsx 514-518 / QRGenerator.tsx 309-313
        load3  == run3 /\ q # NoQR /\ d = NoQR
    IN  [ok      |-> ok1 /\ ok2 /\ (load3 => Len(fl) + Len(pl) < MaxPending),
         timers  |-> t2,
         timeoutId |-> tid,
         colorDebounceTimer |-> IF sched2 THEN id2 ELSE colorDebounceTimer,
         effect2Cleanup |-> IF run2 THEN sched2 ELSE effect2Cleanup,
         preloads |-> IF load3 THEN updateQrDisplay(pl, q) ELSE pl,
         lastSched |-> [c \in DOMAIN lastSched |->
                          IF c = "url500" /\ sched1 THEN id1
                          ELSE IF c = "struct300" /\ sched2 THEN id2
                          ELSE lastSched[c]]]

\* The primed values of one render.
Rendered(r) ==
    /\ r.ok
    /\ timers' = r.timers
    /\ timeoutId' = r.timeoutId
    /\ colorDebounceTimer' = r.colorDebounceTimer
    /\ effect2Cleanup' = r.effect2Cleanup
    /\ preloads' = r.preloads
    /\ lastSched' = r.lastSched

vanillaOnly == <<debounceTimer, isGenerating, generateBtnDisabled,
                 currentQRData, qrCanvas, qrHidden>>

Calm == timers = {} /\ inflight = <<>> /\ preloads = <<>>

QrShown ==
    IF impl \in React THEN displayQrUrl # NoQR ELSE ~qrHidden

(***************************************************************************)
(* React: input handlers                                                    *)
(***************************************************************************)
\* onChange={(e) => setUrl(e.target.value)}
SetUrl(u) ==
    /\ impl \in React /\ mounted
    /\ inputs < MaxInputs /\ inputs' = inputs + 1
    /\ u # url
    /\ url' = u
    /\ Rendered(RunEffects(u, options, qrDataUrl, displayQrUrl, inflight, preloads,
                           TRUE, FALSE, FALSE))
    /\ staleWrite' = FALSE /\ burst' = -1
    /\ UNCHANGED <<impl, mounted, options, inflight, qrDataUrl, displayQrUrl,
                   toast, lastGen>>
    /\ UNCHANGED vanillaOnly
    /\ UNCHANGED <<logoVars, exportVars, colorVars, callVars>>

\* the colors of the options o recorded: a valid value becomes the last
\* valid value of its color; field is the text field that lost focus
ColorFields == {"dark", "light"}

ColorHistory(o, field) ==
    /\ lastValid' = [f \in ColorFields |->
                        IF validateHexColor(o.color[f]) THEN o.color[f]
                        ELSE lastValid[f]]
    /\ focusLost' = field

\* a handler that shows the toast title (or none) and calls
\* setOptions(prev => ({...prev, ...})): always a new options object
ApplyOptions(o, newBurst, title, field) ==
    /\ impl \in React /\ mounted
    /\ inputs < MaxInputs /\ inputs' = inputs + 1
    /\ options' = o
    /\ Rendered(RunEffects(url, o, qrDataUrl, displayQrUrl, inflight, preloads,
                           TRUE, FALSE, FALSE))
    /\ staleWrite' = FALSE /\ burst' = newBurst
    /\ toast' = title
    /\ UNCHANGED <<impl, mounted, url, inflight, qrDataUrl, displayQrUrl, lastGen>>
    /\ UNCHANGED vanillaOnly
    /\ UNCHANGED <<logoVars, exportVars, callVars>>
    /\ ColorHistory(o, field)

SetOptions(o, newBurst) == ApplyOptions(o, newBurst, toast, "none")

\* a width change continues or starts a burst when nothing fired since the
\* previous change, or when the QR is displayed and nothing is pending
BurstAfterWidth ==
    IF burst = 0 \/ (Calm /\ QrShown /\ validateUrl(url)) THEN 0 ELSE -1

\* enterprise: the size Select; baseline: the size input
SetWidth(raw) ==
    /\ \/ /\ impl = "enterprise"
          /\ raw \in SelectWidths
          /\ ParseInt(raw).val # options.width
          /\ SetOptions([options EXCEPT !.width = ParseInt(raw).val],
                        BurstAfterWidth)
       \/ /\ impl = "baseline"
          /\ raw \in RawWidths
          /\ SetOptions([options EXCEPT !.width =
                            validateNumericInput(raw, 128, 1024, 256).parsedValue],
                        BurstAfterWidth)

SetMargin(raw) ==
    /\ raw \in RawMargins
    /\ SetOptions([options EXCEPT !.margin =
                      validateNumericInput(raw, 0, 10, 2).parsedValue], -1)

SetLevel(v) ==
    /\ v \in LevelInputs
    /\ v # options.errorCorrectionLevel
    /\ SetOptions([options EXCEPT !.errorCorrectionLevel = v], -1)

\* the color pickers (type="color"): the value is always #rrggbb
PickDark(c) ==
    /\ c \in DarkPicks
    /\ c # options.color.dark
    /\ validateHexColor(c)
    /\ SetOptions([options EXCEPT !.color.dark = c], -1)

PickLight(c) ==
    /\ c \in LightPicks
    /\ c # options.color.light
    /\ validateHexColor(c)
    /\ SetOptions([options EXCEPT !.color.light = c], -1)

\* the color text fields (value={options.color.dark}, {options.color.light}):
\* '', '#12', '#000', '#g00', 'x1'
ColorTexts == { <<>>, <<Hash, 1, 2>>, <<Hash, 0, 0, 0>>, <<Hash, NonHex, 0, 0>>,
                <<NonHex, 1>> }

\* onChange: a valid text is stored, and so is '' or a text starting with
\* '#'; any other text is dropped and the controlled field keeps its value
TypeColor(f, text) ==
    /\ text \in ColorTexts
    /\ text # options.color[f]
    /\ IF validateHexColor(text) \/ text = <<>> \/ text[1] = Hash
       THEN SetOptions([options EXCEPT !.color[f] = text], -1)
       ELSE /\ impl \in React /\ mounted
            /\ inputs < MaxInputs /\ inputs' = inputs + 1
            /\ focusLost' = "none"
            /\ UNCHANGED <<impl, mounted, timers, toast, qrHidden, lastValid>>
            /\ UNCHANGED <<url, options, timeoutId, colorDebounceTimer,
                           effect2Cleanup, debounceTimer, inflight, preloads,
                           qrDataUrl, displayQrUrl, isGenerating,
                           generateBtnDisabled, currentQRData, qrCanvas,
                           lastSched, staleWrite, burst, lastGen>>
            /\ UNCHANGED <<logoVars, exportVars, callVars>>

TypeDark(text) == TypeColor("dark", text)
TypeLight(text) == TypeColor("light", text)

\* the value the onBlur handler of each field resets to
ResetColor == [dark |-> DefaultDark, light |-> DefaultLight]

\* onBlur: a text that is neither valid nor empty is reported and the color
\* is set to the literal of the handler
BlurColor(f) ==
    /\ impl \in React /\ mounted
    /\ IF ~validateHexColor(options.color[f]) /\ options.color[f] # <<>>
       THEN ApplyOptions([options EXCEPT !.color[f] = ResetColor[f]], -1,
                         "Invalid Color", f)
       ELSE /\ focusLost' = f
            /\ UNCHANGED <<impl, mounted, timers, toast, qrHidden, inputs,
                           lastValid>>
            /\ UNCHANGED <<url, options, timeoutId, colorDebounceTimer,
                           effect2Cleanup, debounceTimer, inflight, preloads,
                           qrDataUrl, displayQrUrl, isGenerating,
                           generateBtnDisabled, currentQRData, qrCanvas,
                           lastSched, staleWrite, burst, lastGen>>
            /\ UNCHANGED <<logoVars, exportVars, callVars>>

BlurDark == BlurColor("dark")
BlurLight == BlurColor("light")

(***************************************************************************)
(* Completion of one of several pending asynchronous operations: the one    *)
(* at position i leaves the sequence; when it delivered a result, those     *)
(* started before it are superseded.                                        *)
(***************************************************************************)
Complete(pending, i, delivered) ==
    [j \in 1..(Len(pending) - 1) |->
        LET k == IF j < i THEN j ELSE j + 1
        IN  IF delivered /\ k < i
            THEN [pending[k] EXCEPT !.superseded = TRUE]
            ELSE pending[k]]

(***************************************************************************)
(* React: generateQRWithValidation, run by a regeneration timer with the    *)
(* url, options and colorValidation of the render that scheduled it.        *)
(***************************************************************************)
MaskOptions(o) ==
    [o EXCEPT !.color = [dark |-> MaskWhite, light |-> Transparent]]

EncoderCall(text, o, scannable) ==
    [text |-> text, options |-> o, scannable |-> scannable, superseded |-> FALSE]

\* the contrast check of generateQRWithValidation: its branch only toasts
\* and has no return, so the function goes on to the encoder either way
ReturnsAfterWarningAlways(scannable) == ~scannable
ReturnsAfterWarning(scannable) == FALSE

FireReactTimer(t) ==
    /\ impl \in React
    /\ UNCHANGED inputs
    /\ t \in timers
    /\ t.class \in {"url500", "struct300"}
    /\ timers' = timers \ {t}
    /\ LET scannable == validateColorContrast(t.options.color.dark,
                                              t.options.color.light).scannable
       IN  IF t.url = <<>> \/ ~validateUrl(t.url)
           THEN /\ toast' = "Invalid URL"
                /\ UNCHANGED <<inflight, burst>>
           ELSE IF ReturnsAfterWarning(scannable)
           THEN /\ toast' = "Color Contrast Warning"
                /\ UNCHANGED <<inflight, burst>>
           ELSE /\ Len(inflight) + Len(preloads) < MaxPending
                /\ inflight' = Append(inflight,
                                      EncoderCall(sanitizeUrl(t.url),
                                                  MaskOptions(t.options), scannable))
                /\ toast' = IF scannable THEN toast ELSE "Color Contrast Warning"
                /\ burst' = IF burst >= 0 THEN Min2(burst + 1, 2) ELSE -1
    /\ staleWrite' = FALSE
    /\ UNCHANGED <<impl, mounted, url, options, timeoutId, colorDebounceTimer,
                   effect2Cleanup, preloads, qrDataUrl, displayQrUrl, lastSched,
                   lastGen>>
    /\ UNCHANGED vanillaOnly
    /\ UNCHANGED <<logoVars, exportVars, colorVars, callVars>>

\* a useState setter called with the value the state already holds bails
\* out: the component is not rendered again and no effect runs
StateChangedAlways(new, old) == TRUE
StateChanged(new, old) == new # old

\* the await of QRCode.toDataURL ends: setQrDataUrl, updateQrDisplay, or the catch
ReactEncoderDone(i) ==
    /\ impl \in React
    /\ UNCHANGED inputs
    /\ i \in 1..Len(inflight)
    /\ LET call   == inflight[i]
           throws == EncoderThrows(call.text, call.options)
       IN  /\ inflight' = Complete(inflight, i, ~throws)
           /\ IF throws
              THEN /\ toast' = "Generation Failed"
                   /\ lastGen' = "threw"
                   /\ staleWrite' = FALSE
                   /\ UNCHANGED <<timers, timeoutId, colorDebounceTimer,
                                  effect2Cleanup, preloads, qrDataUrl, lastSched>>
              ELSE LET qrString  == Encode(call.text, call.options)
                       qrChanged == StateChanged(qrString, qrDataUrl)
                       pl        == updateQrDisplay(preloads, qrString)
                   IN  /\ IF mounted
                          THEN /\ qrDataUrl' = qrString
                               /\ Rendered(RunEffects(url, options, qrString,
                                                      displayQrUrl,
                                                      Complete(inflight, i, TRUE), pl,
                                                      impl = "baseline" /\ qrChanged,
                                                      qrChanged, FALSE))
                          ELSE /\ preloads' = pl
                               /\ UNCHANGED <<timers, timeoutId, colorDebounceTimer,
                                              effect2Cleanup, qrDataUrl, lastSched>>
                       /\ toast' = IF call.scannable THEN "QR Code Generated"
                                   ELSE "QR Code Generated with Warning"
                       /\ lastGen' = "ok"
                       /\ staleWrite' = (mounted /\ call.superseded /\ qrChanged)
    /\ UNCHANGED <<impl, mounted, url, options, displayQrUrl, burst>>
    /\ UNCHANGED vanillaOnly
    /\ UNCHANGED <<logoVars, exportVars, colorVars, callVars>>

\* img.onload / img.onerror of updateQrDisplay: setDisplayQrUrl(newQrDataUrl)
PreloadDone(i) ==
    /\ impl \in React
    /\ UNCHANGED inputs
    /\ i \in 1..Len(preloads)
    /\ LET p           == preloads[i]
           dispChanged == StateChanged(p.qr, displayQrUrl)
           pl          == Complete(preloads, i, TRUE)
       IN  /\ IF mounted
              THEN /\ displayQrUrl' = p.qr
                   /\ Rendered(RunEffects(url, options, qrDataUrl, p.qr, inflight, pl,
                                          impl = "baseline" /\ dispChanged,
                                          FALSE, dispChanged))
              ELSE /\ preloads' = pl
                   /\ UNCHANGED <<timers, timeoutId, colorDebounceTimer,
                                  effect2Cleanup, displayQrUrl, lastSched>>
           /\ staleWrite' = (mounted /\ p.superseded /\ dispChanged)
    /\ UNCHANGED <<impl, mounted, url, options, inflight, qrDataUrl, toast,
                   burst, lastGen>>
    /\ UNCHANGED vanillaOnly
    /\ UNCHANGED <<logoVars, exportVars, colorVars, callVars>>

\* the cleanups that run when the component unmounts
UnmountTimers(ts) ==
    LET c1 == Effect1Cleanup(ts, timeoutId)
        c2 == IF effect2Cleanup THEN ClearColorDebounce(c1, colorDebounceTimer) ELSE c1
    IN  ClearColorDebounce(c2, colorDebounceTimer)

(***************************************************************************)
(* vanilla: CustQRGenerator                                                 *)
(***************************************************************************)
\* generateQRDebounced(url = null)
generateQRDebounced(urlArg) ==
    LET c  == ClearDebounce(timers, debounceTimer)
        id == FreshId(c, {})
    IN  /\ AvailIds(c, {}) # {}
        /\ timers' = c \cup {Timer(id, "vanilla500", urlArg, InitOptions)}
        /\ debounceTimer' = id
        /\ lastSched' = [lastSched EXCEPT !["vanilla500"] = id]

\* hideQR()
hideQR ==
    /\ qrHidden' = TRUE
    /\ currentQRData' = <<>>

\* generateQR without its first line, the return while isGenerating
generateQRUnguarded(urlArg) ==
    LET targetURL == IF urlArg # <<>> THEN urlArg ELSE url
    IN  IF targetURL = <<>> \/ ~validateUrl(targetURL)
        THEN /\ toast' = "Invalid URL"
             /\ UNCHANGED <<isGenerating, generateBtnDisabled, inflight>>
        ELSE /\ Len(inflight) < MaxPending
             /\ isGenerating' = TRUE
             /\ generateBtnDisabled' = TRUE
             /\ inflight' = Append(inflight,
                                   EncoderCall(sanitizeUrl(targetURL),
                                               options, TRUE))
             /\ UNCHANGED toast

\* generateQR(url = null), up to the await of QRCode.toCanvas
generateQR(urlArg) ==
    IF isGenerating
    THEN UNCHANGED <<isGenerating, generateBtnDisabled, inflight, toast>>
    ELSE LET targetURL == IF urlArg # <<>> THEN urlArg ELSE url
         IN  IF targetURL = <<>> \/ ~validateUrl(targetURL)
             THEN /\ toast' = "Invalid URL"
                  /\ UNCHANGED <<isGenerating, generateBtnDisabled, inflight>>
             ELSE /\ Len(inflight) < MaxPending
                  /\ isGenerating' = TRUE
                  /\ generateBtnDisabled' = TRUE
                  /\ inflight' = Append(inflight,
                                        EncoderCall(sanitizeUrl(targetURL),
                                                    options, TRUE))
                  /\ UNCHANGED toast

reactOnly == <<mounted, timeoutId, colorDebounceTimer, effect2Cleanup,
               preloads, qrDataUrl, displayQrUrl, staleWrite, burst>>

handleURLChange(u) ==
    /\ impl = "vanilla"
    /\ inputs < MaxInputs /\ inputs' = inputs + 1
    /\ u # url
    /\ url' = u
    /\ IF u = <<>>
       THEN /\ generateBtnDisabled' = TRUE
            /\ hideQR
            /\ UNCHANGED <<timers, debounceTimer, lastSched>>
       ELSE IF validateUrl(u)
            THEN /\ generateBtnDisabled' = FALSE
                 /\ generateQRDebounced(u)
                 /\ UNCHANGED <<qrHidden, currentQRData>>
            ELSE /\ generateBtnDisabled' = TRUE
                 /\ hideQR
                 /\ UNCHANGED <<timers, debounceTimer, lastSched>>
    /\ UNCHANGED <<impl, options, inflight, isGenerating, qrCanvas, toast, lastGen>>
    /\ UNCHANGED reactOnly
    /\ UNCHANGED <<logoVars, exportVars, colorVars, callVars>>

\* the handlers of the option controls: assign, then generateQRDebounced()
VanillaSetOptions(o) ==
    /\ impl = "vanilla"
    /\ inputs < MaxInputs /\ inputs' = inputs + 1
    /\ options' = o
    /\ generateQRDebounced(<<>>)
    /\ UNCHANGED <<impl, url, inflight, isGenerating, generateBtnDisabled,
                   currentQRData, qrCanvas, qrHidden, toast, lastGen>>
    /\ UNCHANGED reactOnly
    /\ UNCHANGED <<logoVars, exportVars, callVars>>
    /\ ColorHistory(o, "none")

\* parseInt(e.target.value) || fallback
ParseIntOr(raw, fallback) ==
    LET n == ParseInt(raw)
    IN  IF n.nan \/ n.val = 0 THEN fallback ELSE n.val

VanillaSetLevel(v) ==
    /\ v \in LevelInputs
    /\ v # options.errorCorrectionLevel
    /\ VanillaSetOptions([options EXCEPT !.errorCorrectionLevel = v])

VanillaSetWidth(raw) ==
    /\ raw \in RawWidths
    /\ VanillaSetOptions([options EXCEPT !.width = ParseIntOr(raw, 256)])

VanillaSetMargin(raw) ==
    /\ raw \in RawMargins
    /\ VanillaSetOptions([options EXCEPT !.margin = ParseIntOr(raw, 2)])

VanillaPickDark(c) ==
    /\ c \in DarkPicks
    /\ c # options.color.dark
    /\ VanillaSetOptions([options EXCEPT !.color.dark = c])

VanillaPickLight(c) ==
    /\ c \in LightPicks
    /\ c # options.color.light
    /\ VanillaSetOptions([options EXCEPT !.color.light = c])

\* the callback of generateQRDebounced
FireVanillaTimer(t) ==
    /\ impl = "vanilla"
    /\ UNCHANGED inputs
    /\ t \in timers
    /\ t.class = "vanilla500"
    /\ timers' = timers \ {t}
    /\ LET targetURL == IF t.url # <<>> THEN t.url ELSE url
       IN  IF targetURL # <<>> /\ validateUrl(targetURL)
           THEN generateQR(targetURL)
           ELSE UNCHANGED <<isGenerating, generateBtnDisabled, inflight, toast>>
    /\ UNCHANGED <<impl, url, options, debounceTimer, currentQRData, qrCanvas,
                   qrHidden, lastSched, lastGen>>
    /\ UNCHANGED reactOnly
    /\ UNCHANGED <<logoVars, exportVars, colorVars, callVars>>

\* click on #generate-btn
GenerateClick ==
    /\ impl = "vanilla"
    /\ inputs < MaxInputs /\ inputs' = inputs + 1
    /\ ~generateBtnDisabled
    /\ generateQR(<<>>)
    /\ UNCHANGED <<impl, url, options, timers, debounceTimer, currentQRData,
                   qrCanvas, qrHidden, lastSched, lastGen>>
    /\ UNCHANGED reactOnly
    /\ UNCHANGED <<logoVars, exportVars, colorVars, callVars>>

\* the await of QRCode.toCanvas ends: the rest of generateQR
VanillaEncoderDone(i) ==
    /\ impl = "vanilla"
    /\ UNCHANGED inputs
    /\ i \in 1..Len(inflight)
    /\ LET call   == inflight[i]
           throws == EncoderThrows(call.text, call.options)
       IN  /\ inflight' = Complete(inflight, i, ~throws)
           /\ IF throws
              THEN /\ toast' = "Generation Failed"
                   /\ lastGen' = "threw"
                   /\ UNCHANGED <<qrCanvas, currentQRData, qrHidden>>
              ELSE /\ qrCanvas' = Encode(call.text, call.options)
                   /\ currentQRData' = call.text
                   /\ qrHidden' = FALSE
                   /\ toast' = "QR Code Generated"
                   /\ lastGen' = "ok"
    /\ isGenerating' = FALSE
    /\ generateBtnDisabled' = FALSE
    /\ UNCHANGED <<impl, url, options, timers, debounceTimer, lastSched>>
    /\ UNCHANGED reactOnly
    /\ UNCHANGED <<logoVars, exportVars, colorVars, callVars>>

(***************************************************************************)
(* Logo files.  A file name is a sequence of tokens: a token either starts  *)
(* with its only dot or holds no dot.                                       *)
(***************************************************************************)
MB == 1024 * 1024

File(name, size, type, w, h, decodes) ==
    [name |-> name, size |-> size, type |-> type, width |-> w, height |-> h,
     decodes |-> decodes]

DotTokens == {".", ".png", ".PNG", ".jpg", ".exe", ".txt"}

NameTokenLength(tok) ==
    CASE tok = "logo"  -> 4
      [] tok = "photo" -> 5
      [] tok = "notes" -> 5
      [] tok = "CON"   -> 3
      [] tok = "long"  -> 300
      [] tok \in DotTokens \ {"."} -> 4
      [] OTHER         -> 1

RECURSIVE NameLength(_)
NameLength(name) ==
    IF name = <<>> THEN 0 ELSE NameTokenLength(name[1]) + NameLength(Tail(name))

\* String.prototype.toLowerCase, token by token
ToLowerCase(name) ==
    [i \in 1..Len(name) |->
        CASE name[i] = ".PNG" -> ".png"
          [] name[i] = "CON"  -> "con"
          [] OTHER            -> name[i]]

\* file.name.lastIndexOf('.') as a token position (0: no dot)
LastDot(name) ==
    LET dots == {i \in 1..Len(name) : name[i] \in DotTokens}
    IN  IF dots = {} THEN 0 ELSE CHOOSE i \in dots : \A j \in dots : j <= i

\* file.name.toLowerCase().substring(file.name.lastIndexOf('.'))
FileExtension(name) ==
    LET i == LastDot(name)
    IN  IF i = 0 THEN ToLowerCase(name)
        ELSE ToLowerCase(SubSeq(name, i, Len(name)))

AllowedTypes ==
    {"image/jpeg", "image/jpg", "image/png", "image/gif", "image/webp",
     "image/svg+xml", "image/avif", "image/bmp"}

AllowedExtensions ==
    {".jpg", ".jpeg", ".png", ".gif", ".webp", ".svg", ".avif", ".bmp"}

UnsafeTokens == {"<", ">", ":", "|", "?", "*"}

ReservedNames == {"con", "prn", "aux", "nul"}

ExecutableExtensions ==
    {".bat", ".cmd", ".exe", ".scr", ".com", ".pif", ".vbs", ".js", ".jar",
     ".app", ".deb", ".dmg", ".pkg", ".rpm"}

\* dangerousPatterns.some(pattern => pattern.test(file.name))
DangerousName(name) ==
    \/ \E i \in 1..Len(name) : name[i] \in UnsafeTokens
    \/ name # <<>> /\ \A i \in 1..Len(name) : name[i] = "."
    \/ Len(name) = 1 /\ ToLowerCase(name)[1] \in ReservedNames
    \/ name # <<>> /\ ToLowerCase(name)[Len(name)] \in ExecutableExtensions

\* enterprise validateFileUpload
validateFileUpload(file) ==
    IF file.size > 5 * MB
    THEN [isValid |-> FALSE, error |-> "File size must be under 5MB"]
    ELSE IF file.size < 100
    THEN [isValid |-> FALSE, error |-> "File appears to be empty or corrupted"]
    ELSE IF file.type \notin AllowedTypes
    THEN [isValid |-> FALSE, error |-> "File must be a valid image format"]
    ELSE IF ~(Len(FileExtension(file.name)) = 1
              /\ FileExtension(file.name)[1] \in AllowedExtensions)
    THEN [isValid |-> FALSE,
          error |-> "File extension does not match allowed image formats"]
    ELSE IF NameLength(file.name) > 255
    THEN [isValid |-> FALSE, error |-> "File name is too long"]
    ELSE IF DangerousName(file.name)
    THEN [isValid |-> FALSE,
          error |-> "File name contains unsafe characters or patterns"]
    ELSE [isValid |-> TRUE, error |-> ""]

BaselineTypes ==
    {"image/jpeg", "image/jpg", "image/png", "image/gif", "image/webp"}

\* baseline validateFileUpload
validateFileUploadBaseline(file) ==
    IF file.size > 2 * MB
    THEN [isValid |-> FALSE, error |-> "File size must be under 2MB"]
    ELSE IF file.type \notin BaselineTypes
    THEN [isValid |-> FALSE, error |-> "File must be an image"]
    ELSE [isValid |-> TRUE, error |-> ""]

\* file.type.startsWith('image/')
StartsWithImage(type) == type \in AllowedTypes \cup {"image/tiff"}

\* the checks of processLogoFile: "" when the file passes
processLogoFileError(file) ==
    IF file.size > 2 * MB THEN "File too large"
    ELSE IF ~StartsWithImage(file.type) THEN "Invalid file type"
    ELSE ""

\* Math.round(a / b) for positive a and b
RoundDiv(a, b) == (2 * a + b) \div (2 * b)

\* optimizeImage scaling by the larger of the two ratios
OptimizedDimsMaxRatio(w, h) ==
    IF w > 512 \/ h > 512
    THEN IF w >= h THEN <<RoundDiv(w * 512, h), RoundDiv(h * 512, h)>>
                   ELSE <<RoundDiv(w * 512, w), RoundDiv(h * 512, w)>>
    ELSE <<w, h>>

\* the canvas size chosen by optimizeImage
OptimizedDims(w, h) ==
    IF w > 512 \/ h > 512
    THEN IF w >= h THEN <<RoundDiv(w * 512, w), RoundDiv(h * 512, w)>>
                   ELSE <<RoundDiv(w * 512, h), RoundDiv(h * 512, h)>>
    ELSE <<w, h>>

NoLogo == [name |-> <<>>, width |-> 0, height |-> 0, format |-> ""]

NoLogoInfo == [name |-> <<>>, size |-> 0, dimensions |-> <<0, 0>>]

\* the data URL that optimizeImage resolves with
optimizeImage(file) ==
    [name   |-> file.name,
     width  |-> OptimizedDims(file.width, file.height)[1],
     height |-> OptimizedDims(file.width, file.height)[2],
     format |-> IF file.type \in {"image/png", "image/gif"}
                THEN "image/png" ELSE "image/jpeg"]

\* the result of FileReader.readAsDataURL
readAsDataURL(file) ==
    [name |-> file.name, width |-> file.width, height |-> file.height,
     format |-> file.type]

PngGood  == File(<<"logo", ".png">>, 2048, "image/png", 64, 64, TRUE)
BigPhoto == File(<<"photo", ".jpg">>, 3 * MB, "image/jpeg", 3000, 2000, TRUE)
TinyPng  == File(<<"logo", ".PNG">>, 200, "image/png", 64, 20, TRUE)
HugePng  == File(<<"photo", ".png">>, 4096, "image/png", 5000, 100, TRUE)
Corrupt  == File(<<"logo", ".jpg">>, 512, "image/jpeg", 0, 0, FALSE)
ExeFile  == File(<<"logo", ".png", ".exe">>, 2048, "image/png", 64, 64, TRUE)
TextFile == File(<<"notes", ".txt">>, 2048, "text/plain", 0, 0, FALSE)

Files == {PngGood, BigPhoto, TinyPng, HugePng, Corrupt, ExeFile, TextFile}

(***************************************************************************)
(* Object URLs                                                              *)
(***************************************************************************)
UrlIds == 1..MaxUrls

\* the ids that something still refers to are not handed out again
HeldUrls ==
    {objectUrlRef} \cup {uploads[i].url : i \in 1..Len(uploads)}
                   \cup {t.obj : t \in timers}

AvailUrls(live) == UrlIds \ (live \cup HeldUrls)

\* URL.createObjectURL
createObjectURL(live) ==
    CHOOSE u \in AvailUrls(live) : \A v \in AvailUrls(live) : u <= v

\* URL.revokeObjectURL
revokeObjectURL(live, u) == live \ {u}

Upload(file, pc, u) == [file |-> file, pc |-> pc, url |-> u]

RemoveAt(seq, i) ==
    [j \in 1..(Len(seq) - 1) |-> IF j < i THEN seq[j] ELSE seq[j + 1]]

HeldTimers == {timeoutId, colorDebounceTimer, debounceTimer}

\* a dimension check that looks at the width only
TooSmallWidthOnly(w, h, floor) == w < floor

\* width < 32 || height < 32 (baseline: 16)
TooSmall(w, h, floor) == w < floor \/ h < floor

\* width > 4096 || height > 4096 (baseline: 2048)
TooLarge(w, h, ceiling) == w > ceiling \/ h > ceiling

(***************************************************************************)
(* enterprise: handleLogoUpload                                             *)
(***************************************************************************)
\* the finally block: setIsUploading(false) and the delayed revoke
UploadFinally ==
    /\ isUploading' = IF mounted THEN FALSE ELSE isUploading
    /\ IF objectUrlRef # 0
       THEN /\ AvailIds(timers, HeldTimers) # {}
            /\ timers' = timers \cup
                   {RevokeTimer(FreshId(timers, HeldTimers), "revoke1000", 0)}
       ELSE UNCHANGED timers

\* a file arrives from the file input or from a drop: handleLogoUpload up to
\* its first await
StartUpload(f, via) ==
    /\ impl = "enterprise" /\ mounted
    /\ inputs < MaxInputs /\ inputs' = inputs + 1
    /\ via = "input" => ~isUploading
    /\ IF ~validateFileUpload(f).isValid
       THEN /\ toast' = "Invalid File"
            /\ UNCHANGED <<objectUrlRef, liveUrls, uploads>>
            /\ UploadFinally
       ELSE /\ Len(uploads) < MaxPending
            /\ LET live == IF objectUrlRef # 0
                           THEN revokeObjectURL(liveUrls, objectUrlRef)
                           ELSE liveUrls
               IN  /\ AvailUrls(live) # {}
                   /\ liveUrls' = live \cup {createObjectURL(live)}
                   /\ objectUrlRef' = createObjectURL(live)
                   /\ uploads' = Append(uploads,
                                        Upload(f, "dimcheck", createObjectURL(live)))
            /\ isUploading' = TRUE
            /\ UNCHANGED <<timers, toast>>
    /\ UNCHANGED <<impl, mounted, logo, logoInfo, qrHidden>>
    /\ UNCHANGED <<previewOnly, exportVars>>

\* the image of a revoked object URL may load or fail; any other image loads
\* exactly when the file decodes
ImageLoads(up, loaded) ==
    IF up.url \in liveUrls THEN loaded = up.file.decodes
    ELSE loaded => up.file.decodes

\* await dimensionCheck ends; the dimension checks; optimizeImage starts
DimensionCheckDone(i, loaded, ctx) ==
    /\ impl = "enterprise"
    /\ i \in 1..Len(uploads)
    /\ uploads[i].pc = "dimcheck"
    /\ ImageLoads(uploads[i], loaded)
    /\ LET f == uploads[i].file
       IN  IF ~loaded
           THEN /\ ctx
                /\ toast' = "Upload Failed"
                /\ uploads' = RemoveAt(uploads, i)
                /\ UNCHANGED <<objectUrlRef, liveUrls>>
                /\ UploadFinally
           ELSE IF TooSmall(f.width, f.height, 32)
           THEN /\ ctx
                /\ toast' = "Image Too Small"
                /\ uploads' = RemoveAt(uploads, i)
                /\ UNCHANGED <<objectUrlRef, liveUrls>>
                /\ UploadFinally
           ELSE IF TooLarge(f.width, f.height, 4096)
           THEN /\ ctx
                /\ toast' = "Image Too Large"
                /\ uploads' = RemoveAt(uploads, i)
                /\ UNCHANGED <<objectUrlRef, liveUrls>>
                /\ UploadFinally
           ELSE IF ~ctx
           THEN /\ toast' = "Upload Failed"
                /\ uploads' = RemoveAt(uploads, i)
                /\ UNCHANGED <<objectUrlRef, liveUrls>>
                /\ UploadFinally
           ELSE /\ AvailUrls(liveUrls) # {}
                /\ liveUrls' = liveUrls \cup {createObjectURL(liveUrls)}
                /\ uploads' = [uploads EXCEPT ![i] =
                                  Upload(f, "optimize", createObjectURL(liveUrls))]
                /\ UNCHANGED <<objectUrlRef, isUploading, timers, toast>>
    /\ UNCHANGED <<impl, mounted, inputs, logo, logoInfo, qrHidden>>
    /\ UNCHANGED <<previewOnly, exportVars>>

\* await optimizeImage(file) ends; setLogo and setLogoInfo, or the catch
OptimizeDone(i, ok) ==
    /\ impl = "enterprise"
    /\ i \in 1..Len(uploads)
    /\ uploads[i].pc = "optimize"
    /\ ok => uploads[i].file.decodes
    /\ LET f == uploads[i].file
       IN  IF ok
           THEN /\ logo' = IF mounted THEN optimizeImage(f) ELSE logo
                /\ logoInfo' = IF mounted
                               THEN [name |-> f.name, size |-> f.size,
                                     dimensions |-> <<f.width, f.height>>]
                               ELSE logoInfo
                /\ toast' = "Logo Uploaded Successfully"
           ELSE /\ toast' = "Upload Failed"
                /\ UNCHANGED <<logo, logoInfo>>
    /\ uploads' = RemoveAt(uploads, i)
    /\ UNCHANGED <<objectUrlRef, liveUrls>>
    /\ UploadFinally
    /\ UNCHANGED <<impl, mounted, inputs, qrHidden>>
    /\ UNCHANGED <<previewOnly, exportVars>>

\* the callback of the 1 s timer of the finally block
FireUploadRevoke(t) ==
    /\ t \in timers
    /\ t.class = "revoke1000"
    /\ timers' = timers \ {t}
    /\ IF objectUrlRef # 0
       THEN /\ liveUrls' = revokeObjectURL(liveUrls, objectUrlRef)
            /\ objectUrlRef' = 0
       ELSE UNCHANGED <<liveUrls, objectUrlRef>>
    /\ UNCHANGED <<impl, mounted, inputs, toast, logo, logoInfo, isUploading,
                   uploads, qrHidden>>
    /\ UNCHANGED <<previewOnly, exportVars>>

handleLogoRemoval ==
    /\ impl = "enterprise" /\ mounted
    /\ inputs < MaxInputs /\ inputs' = inputs + 1
    /\ logo # NoLogo
    /\ logo' = NoLogo
    /\ logoInfo' = NoLogoInfo
    /\ IF objectUrlRef # 0
       THEN /\ liveUrls' = revokeObjectURL(liveUrls, objectUrlRef)
            /\ objectUrlRef' = 0
       ELSE UNCHANGED <<liveUrls, objectUrlRef>>
    /\ toast' = "Logo Removed"
    /\ UNCHANGED <<impl, mounted, timers, isUploading, uploads, qrHidden>>
    /\ UNCHANGED <<previewOnly, exportVars>>

(***************************************************************************)
(* baseline: handleLogoUpload                                               *)
(***************************************************************************)
BaselineUpload(f) ==
    /\ impl = "baseline" /\ mounted
    /\ inputs < MaxInputs /\ inputs' = inputs + 1
    /\ IF ~validateFileUploadBaseline(f).isValid
       THEN /\ toast' = "Invalid File"
            /\ UNCHANGED <<liveUrls, uploads>>
       ELSE /\ Len(uploads) < MaxPending
            /\ AvailUrls(liveUrls) # {}
            /\ liveUrls' = liveUrls \cup {createObjectURL(liveUrls)}
            /\ uploads' = Append(uploads,
                                 Upload(f, "decode", createObjectURL(liveUrls)))
            /\ UNCHANGED toast
    /\ UNCHANGED <<impl, mounted, timers, logo, logoInfo, isUploading,
                   objectUrlRef, qrHidden>>
    /\ UNCHANGED <<previewOnly, exportVars>>

\* img.onload / img.onerror
BaselineImageDone(i, loaded) ==
    /\ impl = "baseline"
    /\ i \in 1..Len(uploads)
    /\ uploads[i].pc = "decode"
    /\ ImageLoads(uploads[i], loaded)
    /\ LET f == uploads[i].file
       IN  IF ~loaded
           THEN /\ toast' = "Invalid Image"
                /\ uploads' = RemoveAt(uploads, i)
           ELSE IF TooSmall(f.width, f.height, 16)
           THEN /\ toast' = "Image Too Small"
                /\ uploads' = RemoveAt(uploads, i)
           ELSE IF TooLarge(f.width, f.height, 2048)
           THEN /\ toast' = "Image Too Large"
                /\ uploads' = RemoveAt(uploads, i)
           ELSE /\ uploads' = [uploads EXCEPT ![i] = Upload(f, "read", 0)]
                /\ UNCHANGED toast
    /\ UNCHANGED <<impl, mounted, inputs, timers, logo, logoInfo, isUploading,
                   objectUrlRef, liveUrls, qrHidden>>
    /\ UNCHANGED <<previewOnly, exportVars>>

\* reader.onload / reader.onerror
BaselineReadDone(i, ok) ==
    /\ impl = "baseline"
    /\ i \in 1..Len(uploads)
    /\ uploads[i].pc = "read"
    /\ IF ok
       THEN /\ logo' = IF mounted THEN readAsDataURL(uploads[i].file) ELSE logo
            /\ toast' = "Logo Uploaded"
       ELSE /\ toast' = "Upload Failed"
            /\ UNCHANGED logo
    /\ uploads' = RemoveAt(uploads, i)
    /\ UNCHANGED <<impl, mounted, inputs, timers, logoInfo, isUploading,
                   objectUrlRef, liveUrls, qrHidden>>
    /\ UNCHANGED <<previewOnly, exportVars>>

(***************************************************************************)
(* vanilla: processLogoFile                                                 *)
(***************************************************************************)
processLogoFile(f) ==
    /\ impl = "vanilla"
    /\ inputs < MaxInputs /\ inputs' = inputs + 1
    /\ IF processLogoFileError(f) # ""
       THEN /\ toast' = processLogoFileError(f)
            /\ UNCHANGED uploads
       ELSE /\ Len(uploads) < MaxPending
            /\ uploads' = Append(uploads, Upload(f, "read", 0))
            /\ UNCHANGED toast
    /\ UNCHANGED <<impl, mounted, timers, logo, logoInfo, isUploading,
                   objectUrlRef, liveUrls, qrHidden>>
    /\ UNCHANGED <<previewOnly, exportVars>>

\* reader.onload, or a failed read, for which no handler is installed
VanillaReadDone(i, ok) ==
    /\ impl = "vanilla"
    /\ i \in 1..Len(uploads)
    /\ uploads[i].pc = "read"
    /\ IF ok
       THEN /\ logo' = readAsDataURL(uploads[i].file)
            /\ qrHidden' = IF currentQRData # <<>> THEN FALSE ELSE qrHidden
       ELSE UNCHANGED <<logo, qrHidden>>
    /\ uploads' = RemoveAt(uploads, i)
    /\ UNCHANGED <<impl, mounted, inputs, timers, toast, logoInfo, isUploading,
                   objectUrlRef, liveUrls>>
    /\ UNCHANGED <<previewOnly, exportVars>>

(***************************************************************************)
(* enterprise: downloadQR, generateDownloadQR and addLogoToCanvas           *)
(***************************************************************************)
Formats == {"png", "svg", "pdf"}

NoCanvas == [qr |-> NoQR, logo |-> NoLogo, circle |-> FALSE]

NoExport == [logoFailed |-> FALSE, failure |-> "none", saved |-> FALSE,
             toast |-> "", canvas |-> NoCanvas]

Export(format, text, o, lg, pc, canvas) ==
    [format |-> format, text |-> text, options |-> o, logo |-> lg, pc |-> pc,
     canvas |-> canvas, logoFailed |-> FALSE]

\* the options generateDownloadQR hands to the encoder
DownloadOptions(format, o) ==
    IF format = "svg" THEN o ELSE [o EXCEPT !.width = 2 * o.width]

\* a catch that throws the failure of the overlay on
LogoOverlayRethrow(canvas, lg, outcome) ==
    [threw  |-> outcome # "ok",
     canvas |-> IF outcome = "ok" THEN [canvas EXCEPT !.logo = lg, !.circle = TRUE]
                ELSE canvas]

\* the try block of addLogoToCanvas and its catch: a failure to load the logo
\* leaves the canvas alone, a failure of the last drawImage leaves the white
\* circle; neither is thrown on
LogoOverlay(canvas, lg, outcome) ==
    [threw  |-> FALSE,
     canvas |-> CASE outcome = "ok"   -> [canvas EXCEPT !.logo = lg, !.circle = TRUE]
                  [] outcome = "draw" -> [canvas EXCEPT !.circle = TRUE]
                  [] OTHER            -> canvas]

\* link.download / the argument of pdf.save
FileName(format) ==
    CASE format = "png" -> "custqr-code.png"
      [] format = "svg" -> "custqr-code.svg"
      [] OTHER          -> "custqr-code.pdf"

\* the content of an SVG file that is the encoder's own vector output
VectorBody == [kind |-> "vector"]

\* the content of a PNG or PDF file: the pixels of a canvas
RasterBody == [kind |-> "raster"]

\* the SVG document generateDownloadQR builds around the canvas with the logo
SvgWrapper(o) ==
    [kind |-> "wrapped", width |-> o.width, height |-> o.width,
     viewBox |-> <<0, 0, o.width, o.width>>]

\* generateDownloadQR: the branch on the format and on the logo
FileBody(format, lg, o) ==
    IF format # "svg" THEN RasterBody
    ELSE IF lg = NoLogo THEN VectorBody
    ELSE SvgWrapper(o)

SavedFile(format, canvas, body) ==
    [name |-> FileName(format), canvas |-> canvas, body |-> body]

\* the catch of downloadQR
ExportFails(e, i, failure) ==
    /\ toast' = "Download Failed"
    /\ lastExport' = [logoFailed |-> e.logoFailed, failure |-> failure,
                      saved |-> FALSE, toast |-> "Download Failed",
                      canvas |-> NoCanvas]
    /\ exports' = RemoveAt(exports, i)
    /\ UNCHANGED <<saved, liveUrls, timers>>

\* the canvas is serialized and saved: link.click() or pdf.save(); the
\* finally block schedules the revoke of the object URL of an SVG
ExportSaves(e, i, canvas, ser) ==
    IF e.format # "svg" /\ ~ser
    THEN ExportFails(e, i, "serialize")
    ELSE /\ e.format = "svg" => ser
         /\ saved' = Append(saved, SavedFile(e.format, canvas,
                                            FileBody(e.format, e.logo, e.options)))
         /\ toast' = "Download Complete"
         /\ lastExport' = [logoFailed |-> e.logoFailed, failure |-> "none",
                           saved |-> TRUE, toast |-> "Download Complete",
                           canvas |-> canvas]
         /\ exports' = RemoveAt(exports, i)
         /\ IF e.format = "svg"
            THEN /\ AvailUrls(liveUrls) # {}
                 /\ AvailIds(timers, HeldTimers) # {}
                 /\ liveUrls' = liveUrls \cup {createObjectURL(liveUrls)}
                 /\ timers' = timers \cup
                        {RevokeTimer(FreshId(timers, HeldTimers), "revoke100",
                                     createObjectURL(liveUrls))}
            ELSE UNCHANGED <<liveUrls, timers>>

\* a click on a download button: downloadQR up to its first await
DownloadClick(format) ==
    /\ impl = "enterprise" /\ mounted
    /\ inputs < MaxInputs /\ inputs' = inputs + 1
    /\ displayQrUrl # NoQR
    /\ IF qrDataUrl = NoQR
       THEN UNCHANGED exports
       ELSE /\ Len(exports) < MaxPending
            /\ exports' = Append(exports,
                                 Export(format, sanitizeUrl(url), options, logo,
                                        "encode", NoCanvas))
    /\ UNCHANGED <<impl, mounted, timers, toast, qrHidden, saved, lastExport>>
    /\ UNCHANGED <<previewOnly, logoVars>>

\* the await of QRCode.toCanvas / QRCode.toString ends; without a logo the
\* export is serialized at once, with one addLogoToCanvas awaits its image
ExportEncoderDone(i, ctx, ser) ==
    /\ impl = "enterprise"
    /\ i \in 1..Len(exports)
    /\ exports[i].pc = "encode"
    /\ LET e      == exports[i]
           o      == DownloadOptions(e.format, e.options)
           canvas == [NoCanvas EXCEPT !.qr = Encode(e.text, o)]
       IN  IF EncoderThrows(e.text, o)
           THEN ctx /\ ser /\ ExportFails(e, i, "encoder")
           ELSE IF e.logo = NoLogo
           THEN ctx /\ ExportSaves(e, i, canvas, ser)
           ELSE IF ~ctx
           THEN ser /\ ExportFails(e, i, "context")
           ELSE /\ ser
                /\ exports' = [exports EXCEPT ![i] =
                                  Export(e.format, e.text, e.options, e.logo,
                                         "logo", canvas)]
                /\ UNCHANGED <<saved, liveUrls, timers, toast, lastExport>>
    /\ UNCHANGED <<impl, mounted, inputs, qrHidden, logo, logoInfo, isUploading,
                   objectUrlRef, uploads>>
    /\ UNCHANGED previewOnly

\* the await of the logo image in addLogoToCanvas ends
ExportLogoDone(i, outcome, ser) ==
    /\ impl = "enterprise"
    /\ i \in 1..Len(exports)
    /\ exports[i].pc = "logo"
    /\ LET e == [exports[i] EXCEPT !.logoFailed = (outcome # "ok")]
           r == LogoOverlay(e.canvas, e.logo, outcome)
       IN  IF r.threw
           THEN ser /\ ExportFails(e, i, "logo")
           ELSE ExportSaves(e, i, r.canvas, ser)
    /\ UNCHANGED <<impl, mounted, inputs, qrHidden, logo, logoInfo, isUploading,
                   objectUrlRef, uploads>>
    /\ UNCHANGED previewOnly

\* the callback of the 100 ms timer of the finally block of downloadQR
FireExportRevoke(t) ==
    /\ t \in timers
    /\ t.class = "revoke100"
    /\ timers' = timers \ {t}
    /\ liveUrls' = revokeObjectURL(liveUrls, t.obj)
    /\ UNCHANGED <<impl, mounted, inputs, toast, qrHidden, logo, logoInfo,
                   isUploading, objectUrlRef, uploads>>
    /\ UNCHANGED <<previewOnly, exportVars>>

(***************************************************************************)
(* baseline and vanilla: downloadQR (vanilla: with downloadPNG, downloadSVG *)
(* and downloadPDF)                                                         *)
(***************************************************************************)
\* what html2canvas draws of the preview element: the displayed QR and, over
\* it, the logo on its white disc when a logo is set
PreviewCapture ==
    [qr     |-> IF impl = "vanilla" THEN qrCanvas ELSE displayQrUrl,
     logo   |-> logo,
     circle |-> logo # NoLogo]

\* the text handed to QRCode.toString
SimpleExportText ==
    IF impl = "vanilla" THEN currentQRData ELSE sanitizeUrl(url)

\* a click on a download button: downloadQR up to its await
SimpleDownloadClick(format) ==
    /\ impl \in {"baseline", "vanilla"} /\ mounted
    /\ inputs < MaxInputs /\ inputs' = inputs + 1
    /\ IF (impl = "baseline" /\ qrDataUrl = NoQR)
          \/ (impl = "vanilla" /\ currentQRData = <<>>)
       THEN UNCHANGED exports
       ELSE /\ Len(exports) < MaxPending
            /\ exports' = Append(exports,
                                 Export(format, SimpleExportText, options, logo,
                                        IF format = "svg" THEN "encode"
                                        ELSE "capture",
                                        IF format = "svg" THEN NoCanvas
                                        ELSE PreviewCapture))
    /\ UNCHANGED <<impl, mounted, timers, toast, qrHidden, saved, lastExport,
                   liveUrls>>
    /\ UNCHANGED <<previewOnly, logo, logoInfo, isUploading, objectUrlRef,
                   uploads>>

\* the await of QRCode.toString or of html2canvas ends; the file is saved by
\* link.click() or pdf.save(), and the object URL of an SVG is never revoked
SimpleDownloadDone(i, ok) ==
    /\ impl \in {"baseline", "vanilla"}
    /\ i \in 1..Len(exports)
    /\ LET e      == exports[i]
           canvas == IF e.format = "svg"
                     THEN [NoCanvas EXCEPT !.qr = Encode(e.text, e.options)]
                     ELSE e.canvas
       IN  /\ e.format = "svg" => (ok <=> ~EncoderThrows(e.text, e.options))
           /\ IF ~ok
              THEN ExportFails(e, i, IF e.format = "svg" THEN "encoder"
                                     ELSE "serialize")
              ELSE /\ saved' = Append(saved,
                                      SavedFile(e.format, canvas,
                                                IF e.format = "svg"
                                                THEN VectorBody ELSE RasterBody))
                   /\ toast' = "Download Complete"
                   /\ lastExport' = [logoFailed |-> FALSE, failure |-> "none",
                                     saved |-> TRUE,
                                     toast |-> "Download Complete",
                                     canvas |-> canvas]
                   /\ exports' = RemoveAt(exports, i)
                   /\ IF e.format = "svg"
                      THEN /\ AvailUrls(liveUrls) # {}
                           /\ liveUrls' = liveUrls \cup {createObjectURL(liveUrls)}
                      ELSE UNCHANGED liveUrls
                   /\ UNCHANGED timers
    /\ UNCHANGED <<impl, mounted, inputs, qrHidden, logo, logoInfo, isUploading,
                   objectUrlRef, uploads>>
    /\ UNCHANGED previewOnly

\* the component unmounts: the effect cleanups run
Unmount ==
    /\ impl \in React /\ mounted
    /\ UNCHANGED inputs
    /\ mounted' = FALSE
    /\ timers' = UnmountTimers(timers)
    /\ liveUrls' = IF impl = "enterprise" /\ objectUrlRef # 0
                   THEN revokeObjectURL(liveUrls, objectUrlRef)
                   ELSE liveUrls
    /\ staleWrite' = FALSE /\ burst' = -1
    /\ UNCHANGED <<impl, url, options, timeoutId, colorDebounceTimer,
                   effect2Cleanup, inflight, preloads, qrDataUrl, displayQrUrl,
                   toast, lastSched, lastGen>>
    /\ UNCHANGED vanillaOnly
    /\ UNCHANGED <<logo, logoInfo, isUploading, objectUrlRef, uploads>>
    /\ UNCHANGED <<exportVars, colorVars, callVars>>

(***************************************************************************)
(* The preview machine of the three implementations                         *)
(***************************************************************************)
vars == <<previewVars, logoVars, exportVars, colorVars, callVars>>

InitPreviewWith(o) ==
    /\ impl \in Impls
    /\ mounted = TRUE
    /\ url = <<>>
    /\ options = o
    /\ timers = {}
    /\ timeoutId = 0
    /\ colorDebounceTimer = 0
    /\ effect2Cleanup = FALSE
    /\ debounceTimer = 0
    /\ inflight = <<>>
    /\ preloads = <<>>
    /\ qrDataUrl = NoQR
    /\ displayQrUrl = NoQR
    /\ isGenerating = FALSE
    /\ generateBtnDisabled \in (IF impl = "vanilla" THEN BOOLEAN ELSE {FALSE})
    /\ currentQRData = <<>>
    /\ qrCanvas = NoQR
    /\ qrHidden = TRUE
    /\ toast = ""
    /\ lastSched = [c \in {"url500", "struct300", "vanilla500"} |-> 0]
    /\ staleWrite = FALSE
    /\ burst = -1
    /\ lastGen = "none"
    /\ inputs = 0

InitPreview == InitPreviewWith(InitOptions)

InitColorHistory ==
    /\ lastValid = [f \in ColorFields |-> options.color[f]]
    /\ focusLost = "none"

InitLogo ==
    /\ logo = NoLogo
    /\ logoInfo = NoLogoInfo
    /\ isUploading = FALSE
    /\ objectUrlRef = 0
    /\ liveUrls = {}
    /\ uploads = <<>>

InitExports ==
    /\ exports = <<>>
    /\ saved = <<>>
    /\ lastExport = NoExport

NoCall == [fn |-> "none"]
NoResult == [returned |-> FALSE]

InitCalls ==
    /\ args = NoCall
    /\ result = NoResult

Init == InitPreview /\ InitLogo /\ InitExports /\ InitColorHistory /\ InitCalls

Next ==
    \/ \E u \in UrlInputs : SetUrl(u)
    \/ \E raw \in SelectWidths \cup RawWidths : SetWidth(raw)
    \/ \E raw \in RawMargins : SetMargin(raw)
    \/ \E v \in LevelInputs : SetLevel(v)
    \/ \E c \in DarkPicks : PickDark(c)
    \/ \E c \in LightPicks : PickLight(c)
    \/ \E t \in timers : FireReactTimer(t)
    \/ \E i \in 1..MaxPending : ReactEncoderDone(i)
    \/ \E i \in 1..MaxPending : PreloadDone(i)
    \/ Unmount
    \/ \E u \in UrlInputs : handleURLChange(u)
    \/ \E v \in LevelInputs : VanillaSetLevel(v)
    \/ \E raw \in RawWidths : VanillaSetWidth(raw)
    \/ \E raw \in RawMargins : VanillaSetMargin(raw)
    \/ \E c \in DarkPicks : VanillaPickDark(c)
    \/ \E c \in LightPicks : VanillaPickLight(c)
    \/ \E t \in timers : FireVanillaTimer(t)
    \/ GenerateClick
    \/ \E i \in 1..MaxPending : VanillaEncoderDone(i)

Spec == Init /\ [][Next]_vars

(***************************************************************************)
(* The preview machine of the React components with the progress the        *)
(* browser guarantees: a pending timer fires, a pending encoder call and a  *)
(* pending image pre-load end.                                              *)
(***************************************************************************)
InitReact == Init /\ impl \in React

\* '' and 'a.com': the URL effect schedules for the second only.  Every
\* option control reaches the effects through setOptions alike, so the
\* error-correction select stands for them.
LiveUrls == { <<>>, <<"a.com">> }

NextReact ==
    \/ \E u \in LiveUrls : SetUrl(u)
    \/ \E v \in LevelInputs : SetLevel(v)
    \/ \E t \in timers : FireReactTimer(t)
    \/ \E i \in 1..MaxPending : ReactEncoderDone(i)
    \/ \E i \in 1..MaxPending : PreloadDone(i)
    \/ Unmount

SpecReactLive ==
    /\ InitReact /\ [][NextReact]_vars
    /\ WF_vars(\E t \in timers : FireReactTimer(t))
    /\ WF_vars(\E i \in 1..MaxPending : ReactEncoderDone(i))
    /\ WF_vars(\E i \in 1..MaxPending : PreloadDone(i))

(***************************************************************************)
(* The logo machine of the three implementations                            *)
(***************************************************************************)
NextUpload ==
    \/ \E f \in Files, via \in {"input", "drop"} : StartUpload(f, via)
    \/ \E i \in 1..MaxPending, loaded, ctx \in BOOLEAN :
           DimensionCheckDone(i, loaded, ctx)
    \/ \E i \in 1..MaxPending, ok \in BOOLEAN : OptimizeDone(i, ok)
    \/ \E t \in timers : FireUploadRevoke(t)
    \/ handleLogoRemoval
    \/ \E f \in Files : BaselineUpload(f)
    \/ \E i \in 1..MaxPending, loaded \in BOOLEAN : BaselineImageDone(i, loaded)
    \/ \E i \in 1..MaxPending, ok \in BOOLEAN : BaselineReadDone(i, ok)
    \/ \E f \in Files : processLogoFile(f)
    \/ \E i \in 1..MaxPending, ok \in BOOLEAN : VanillaReadDone(i, ok)
    \/ Unmount

SpecUpload == Init /\ [][NextUpload]_vars

(***************************************************************************)
(* The export machine of the enterprise component.  It starts in a state    *)
(* the component rests in after a QR has been displayed: for "a.com" with   *)
(* the initial options, or for the long URL after the level was raised to   *)
(* "H" and the regeneration failed; with or without an uploaded logo.       *)
(***************************************************************************)
InitExport ==
    /\ impl = "enterprise"
    /\ mounted = TRUE
    /\ \/ /\ url = <<"a.com">>
          /\ options = InitOptions
          /\ toast = "QR Code Generated"
          /\ lastGen = "ok"
       \/ /\ url = <<"x1500.com", " ">>
          /\ options = [InitOptions EXCEPT !.errorCorrectionLevel = "H"]
          /\ toast = "Generation Failed"
          /\ lastGen = "threw"
    /\ timers = {}
    /\ timeoutId = 1
    /\ colorDebounceTimer = 2
    /\ effect2Cleanup = TRUE
    /\ debounceTimer = 0
    /\ inflight = <<>>
    /\ preloads = <<>>
    /\ qrDataUrl = Encode(sanitizeUrl(url), MaskOptions(InitOptions))
    /\ displayQrUrl = qrDataUrl
    /\ isGenerating = FALSE
    /\ generateBtnDisabled = FALSE
    /\ currentQRData = <<>>
    /\ qrCanvas = NoQR
    /\ qrHidden = TRUE
    /\ lastSched = [c \in {"url500", "struct300", "vanilla500"} |->
                      IF c = "url500" THEN 1 ELSE IF c = "struct300" THEN 2 ELSE 0]
    /\ staleWrite = FALSE
    /\ burst = -1
    /\ inputs = 0
    /\ \/ InitLogo
       \/ /\ logo = optimizeImage(PngGood)
          /\ logoInfo = [name |-> PngGood.name, size |-> PngGood.size,
                         dimensions |-> <<PngGood.width, PngGood.height>>]
          /\ isUploading = FALSE
          /\ objectUrlRef = 0
          /\ liveUrls = {2}
          /\ uploads = <<>>
    /\ InitExports
    /\ InitColorHistory
    /\ InitCalls

NextExport ==
    \/ \E format \in Formats : DownloadClick(format)
    \/ \E i \in 1..MaxPending, ctx, ser \in BOOLEAN : ExportEncoderDone(i, ctx, ser)
    \/ \E i \in 1..MaxPending, outcome \in {"ok", "load", "draw"}, ser \in BOOLEAN :
           ExportLogoDone(i, outcome, ser)
    \/ \E t \in timers : FireExportRevoke(t)
    \/ Unmount

SpecExport == InitExport /\ [][NextExport]_vars

(***************************************************************************)
(* The logo machine of the enterprise component, started in a state the     *)
(* component rests in after a QR has been displayed and a logo has been     *)
(* uploaded.  The user replaces the logo only while one is shown, so an     *)
(* upload that ends while no logo is shown was in flight when the logo was  *)
(* removed.                                                                 *)
(***************************************************************************)
InitWithLogo == InitExport /\ logo # NoLogo

NextLogoEdit ==
    \/ \E f \in Files, via \in {"input", "drop"} :
           logo # NoLogo /\ StartUpload(f, via)
    \/ \E i \in 1..MaxPending, loaded, ctx \in BOOLEAN :
           DimensionCheckDone(i, loaded, ctx)
    \/ \E i \in 1..MaxPending, ok \in BOOLEAN : OptimizeDone(i, ok)
    \/ \E t \in timers : FireUploadRevoke(t)
    \/ handleLogoRemoval
    \/ Unmount

SpecLogoEdit == InitWithLogo /\ [][NextLogoEdit]_vars

(***************************************************************************)
(* The export machine of the three implementations.  The baseline component *)
(* and the vanilla page start in a state they rest in after the QR of       *)
(* "a.com" has been displayed with the initial options, with or without an  *)
(* uploaded logo.                                                           *)
(***************************************************************************)
InitSimpleExport ==
    /\ impl \in {"baseline", "vanilla"}
    /\ mounted = TRUE
    /\ url = <<"a.com">>
    /\ options = InitOptions
    /\ toast = "QR Code Generated"
    /\ lastGen = "ok"
    /\ timers = {}
    /\ timeoutId = (IF impl = "baseline" THEN 1 ELSE 0)
    /\ colorDebounceTimer = (IF impl = "baseline" THEN 2 ELSE 0)
    /\ effect2Cleanup = (impl = "baseline")
    /\ debounceTimer = (IF impl = "vanilla" THEN 1 ELSE 0)
    /\ inflight = <<>>
    /\ preloads = <<>>
    /\ qrDataUrl = (IF impl = "baseline"
                    THEN Encode(sanitizeUrl(url), MaskOptions(InitOptions))
                    ELSE NoQR)
    /\ displayQrUrl = qrDataUrl
    /\ isGenerating = FALSE
    /\ generateBtnDisabled = FALSE
    /\ currentQRData = (IF impl = "vanilla" THEN sanitizeUrl(url) ELSE <<>>)
    /\ qrCanvas = (IF impl = "vanilla"
                   THEN Encode(currentQRData, InitOptions) ELSE NoQR)
    /\ qrHidden = (impl # "vanilla")
    /\ lastSched = [c \in {"url500", "struct300", "vanilla500"} |->
                      IF impl = "vanilla"
                      THEN (IF c = "vanilla500" THEN 1 ELSE 0)
                      ELSE (IF c = "url500" THEN 1
                            ELSE IF c = "struct300" THEN 2 ELSE 0)]
    /\ staleWrite = FALSE
    /\ burst = -1
    /\ inputs = 0
    /\ \/ InitLogo
       \/ /\ logo = readAsDataURL(PngGood)
          /\ logoInfo = NoLogoInfo
          /\ isUploading = FALSE
          /\ objectUrlRef = 0
          /\ liveUrls = (IF impl = "baseline" THEN {1} ELSE {})
          /\ uploads = <<>>
    /\ InitExports
    /\ InitColorHistory
    /\ InitCalls

InitDownload == InitExport \/ InitSimpleExport

NextDownload ==
    \/ NextExport
    \/ \E format \in Formats : SimpleDownloadClick(format)
    \/ \E i \in 1..MaxPending, ok \in BOOLEAN : SimpleDownloadDone(i, ok)

SpecDownload == InitDownload /\ [][NextDownload]_vars

(***************************************************************************)
(* The export machine together with the URL field: the URL is edited, the   *)
(* debounced regeneration runs and files are downloaded, in any order.      *)
(***************************************************************************)
NextEditExport ==
    \/ \E u \in UrlInputs : SetUrl(u)
    \/ \E t \in timers : FireReactTimer(t)
    \/ \E i \in 1..MaxPending : ReactEncoderDone(i)
    \/ \E i \in 1..MaxPending : PreloadDone(i)
    \/ \E u \in UrlInputs : handleURLChange(u)
    \/ \E t \in timers : FireVanillaTimer(t)
    \/ \E i \in 1..MaxPending : VanillaEncoderDone(i)
    \/ NextDownload

SpecEditExport == InitDownload /\ [][NextEditExport]_vars

(***************************************************************************)
(* The color fields of the React components.  The machine starts with the   *)
(* colors the pickers can have set.                                         *)
(***************************************************************************)
InitColors ==
    /\ \E d \in DarkPicks, l \in LightPicks :
           InitPreviewWith([InitOptions EXCEPT !.color = [dark |-> d, light |-> l]])
    /\ impl \in React
    /\ InitLogo
    /\ InitExports
    /\ InitColorHistory
    /\ InitCalls

NextColors ==
    \/ \E text \in ColorTexts : TypeDark(text)
    \/ \E text \in ColorTexts : TypeLight(text)
    \/ BlurDark
    \/ BlurLight
    \/ \E c \in DarkPicks : PickDark(c)
    \/ \E c \in LightPicks : PickLight(c)

SpecColors == InitColors /\ [][NextColors]_vars

(***************************************************************************)
(* Calls of the validators.  A call is made in the initial state of a React *)
(* component with arguments drawn from the texts of at most MaxText         *)
(* characters.                                                              *)
(***************************************************************************)
Texts(chars) == UNION {[1..n -> chars] : n \in 0..MaxText}

InitCall(a, impls) ==
    /\ InitPreview /\ InitLogo /\ InitExports /\ InitColorHistory
    /\ impl \in impls
    /\ args \in a
    /\ result = NoResult

Returns(fn, value) ==
    /\ ~result.returned
    /\ args.fn = fn
    /\ result' = [returned |-> TRUE, value |-> value]
    /\ UNCHANGED <<previewVars, logoVars, exportVars, colorVars, args>>

\* the digits 1 and 5, ' ', '-' and a letter
NumericChars == {1, 5, Space, Minus, Letter}

\* (min, max, defaultValue) of the margin input, the enterprise size and the
\* baseline size input
NumericRanges == {<<0, 10, 2>>, <<128, 512, 256>>, <<128, 1024, 256>>}

NumericArgs ==
    {[fn |-> "validateNumericInput", value |-> v, min |-> r[1], max |-> r[2],
      defaultValue |-> r[3]] : v \in Texts(NumericChars), r \in NumericRanges}

CallValidateNumericInput ==
    Returns("validateNumericInput",
            validateNumericInput(args.value, args.min, args.max, args.defaultValue))

InitNumeric == InitCall(NumericArgs, React)

NextNumeric == CallValidateNumericInput

SpecNumeric == InitNumeric /\ [][NextNumeric]_vars

\* URL texts: the tokens, a ':' only in the first token that is not a blank
UrlToks == {"https://", "http://", "ftp://", "localhost:", "a.com", "url",
            "8080", " "}

UrlTexts ==
    {t \in Texts(UrlToks) :
        \A i \in DOMAIN t :
            t[i] \in Schemes \cup OtherSchemes \cup ColonToks
            => \A k \in 1..(i - 1) : t[k] = " "}

UrlArgs == {[fn |-> f, input |-> t] : f \in {"validateUrl", "sanitizeUrl"},
                                      t \in UrlTexts}

CallValidateUrl == Returns("validateUrl", validateUrl(args.input))

CallSanitizeUrl == Returns("sanitizeUrl", sanitizeUrl(args.input))

InitUrls == InitCall(UrlArgs, Impls)

NextUrls == CallValidateUrl \/ CallSanitizeUrl

SpecUrls == InitUrls /\ [][NextUrls]_vars

\* widths and heights of decoded images, around the limits of the
\* dimension validation (32, 4096) and of optimizeImage (512)
ImageSizes ==
    {16, 31, 32, 33, 47, 64, 100, 255, 256, 333, 500, 511, 512, 513, 514, 600,
     683, 700, 768, 1000, 1023, 1024, 1025, 1500, 2000, 2047, 2048, 2049,
     3000, 3333, 4000, 4095, 4096, 4097, 5000}

\* the images that pass the dimension validation of handleLogoUpload
OptimizeArgs ==
    {[fn |-> "optimizeImage", width |-> w, height |-> h] :
        <<w, h>> \in {d \in ImageSizes \X ImageSizes :
                        ~TooSmall(d[1], d[2], 32) /\ ~TooLarge(d[1], d[2], 4096)}}

CallOptimizeImage ==
    Returns("optimizeImage", OptimizedDims(args.width, args.height))

InitOptimize == InitCall(OptimizeArgs, {"enterprise"})

NextOptimize == CallOptimizeImage

SpecOptimize == InitOptimize /\ [][NextOptimize]_vars

(***************************************************************************)
(* The size of the logo and of its white backing, in the export and in the  *)
(* preview of the enterprise component.                                     *)
(***************************************************************************)
\* addLogoToCanvas: logoSize = Math.round(canvasSize * 0.20)
ExportLogoSize(canvasSize) == RoundDiv(canvasSize * 20, 100)

\* addLogoToCanvas: circlePadding = Math.max(Math.round(logoSize * 0.12), 3)
ExportCirclePadding(logoSize) == Max2(RoundDiv(logoSize * 12, 100), 3)

calculatePreviewLogoSize(qrSize) ==
    LET downloadCanvasSize == qrSize * 2
        downloadLogoSize   == RoundDiv(downloadCanvasSize * 20, 100)
        previewLogoSize    == RoundDiv(downloadLogoSize, 2)
    IN  Max2(Min2(previewLogoSize, 80), 16)

\* calculatePreviewCirclePadding reads options.width, not its argument
calculatePreviewCirclePadding(qrSize) ==
    LET canvasSize      == qrSize * 2
        downloadPadding == IF canvasSize > 512 THEN 8 ELSE 4
    IN  Max2(RoundDiv(downloadPadding, 2), 1)

\* the items of the size Select: 128, 160, ..., 512
SelectSizes == {128 + 32 * k : k \in 0..12}

\* the widths validateNumericInput(options.width, 128, 512, 256) accepts
QrSizes == 128..512

LogoGeometryArgs == {[fn |-> "logoGeometry", qrSize |-> w] : w \in QrSizes}

\* the export draws on the canvas of 2 * width pixels that generateDownloadQR
\* asks the encoder for; the preview uses the two memoized sizes
CallLogoGeometry ==
    Returns("logoGeometry",
            [logoSize          |-> ExportLogoSize(args.qrSize * 2),
             circlePadding     |-> ExportCirclePadding(ExportLogoSize(args.qrSize * 2)),
             previewLogoSize   |-> calculatePreviewLogoSize(args.qrSize),
             previewCirclePadding |-> calculatePreviewCirclePadding(args.qrSize)])

InitGeometry == InitCall(LogoGeometryArgs, {"enterprise"})

NextGeometry == CallLogoGeometry

SpecGeometry == InitGeometry /\ [][NextGeometry]_vars

(***************************************************************************)
(* Calls of validateColorContrast and of calculateLuminance (the React      *)
(* components).  calculateLuminance is called with validated colors only.   *)
(***************************************************************************)
ContrastColors ==
    ColorTexts \cup
    { DefaultDark, DefaultLight, BlackColor,
      <<Hash, 15, 15, 15>>,                       \* '#fff'
      <<Hash, 15, 0, 0>>,                         \* '#f00'
      <<Hash, 15, 15, 0, 0, 0, 0>>,               \* '#ff0000'
      <<Hash, 10, 11, 12>>,                       \* '#abc'
      <<Hash, 10, 10, 11, 11, 12, 12>>,           \* '#aabbcc'
      <<Hash, 8, 8, 8>>,                          \* '#888'
      <<Hash, 8, 8, 8, 8, 8, 8>>,                 \* '#888888'
      <<Hash, 0, 0, 15, 15, 15, 15>> }            \* '#00ffff'

ContrastArgs ==
    {[fn |-> "validateColorContrast", darkColor |-> d, lightColor |-> l] :
        d \in ContrastColors, l \in ContrastColors}
    \cup {[fn |-> "calculateLuminance", hex |-> c] :
             c \in {x \in ContrastColors : validateHexColor(x)}}

CallValidateColorContrast ==
    Returns("validateColorContrast",
            validateColorContrast(args.darkColor, args.lightColor))

CallCalculateLuminance ==
    Returns("calculateLuminance", calculateLuminance(args.hex))

InitContrast == InitCall(ContrastArgs, React)

NextContrast == CallValidateColorContrast \/ CallCalculateLuminance

SpecContrast == InitContrast /\ [][NextContrast]_vars

(***************************************************************************)
(* Claims                                                                   *)
(***************************************************************************)
TimerClasses == {"url500", "struct300", "vanilla500"}

\* C2: in every reachable state, every pending timer of a debounce class is
\* the timer that was scheduled last in that class, so at most one timer per
\* class is pending and no timer scheduled earlier can still fire.
C2_OneTimerPerClass ==
    \A c \in TimerClasses :
        /\ \A t \in timers : t.class = c => t.id = lastSched[c]
        /\ Cardinality({t \in timers : t.class = c}) <= 1

\* a second input has re-scheduled both timers of a React component
C2_Witness ==
    /\ inputs >= 2
    /\ \E t1 \in timers : t1.class = "url500"
    /\ \E t2 \in timers : t2.class = "struct300"

\* C1: no completion of an encoder call or of an image pre-load that an
\* operation started later has already overtaken changes qrDataUrl or
\* displayQrUrl: an out-of-order completion never overwrites a newer result.
C1_NoStaleWrite == ~staleWrite

\* the key of an encoder output: the text and the structural options
KeyOf(qr) ==
    <<qr.text, qr.options.width, qr.options.margin,
      qr.options.errorCorrectionLevel>>

\* what the preview area shows
Displayed == IF impl \in React THEN displayQrUrl ELSE qrCanvas

\* C3: during a burst of width changes that began while a QR was displayed
\* for a valid URL with nothing pending, the encoder is invoked at most once
\* after the last change of the burst.
C3_OneInvocationPerBurst == burst <= 1

\* a step of a React component that changes a colour of the options and
\* nothing else
ColorOnlyChange ==
    /\ impl \in React
    /\ options'.color # options.color
    /\ url' = url
    /\ options'.width = options.width
    /\ options'.margin = options.margin
    /\ options'.errorCorrectionLevel = options.errorCorrectionLevel

\* C4: a step of a React component that changes only options.color.dark or
\* options.color.light schedules no regeneration timer and starts no encoder
\* call.
C4_ColorChangeSchedulesNothing ==
    [][ColorOnlyChange => (timers' \subseteq timers /\ inflight' = inflight)]_vars

\* C5: once the user has stopped and no timer, encoder call or pre-load is
\* pending, a valid URL that the encoder accepts is displayed as the encoder
\* output for the current sanitized URL, width, margin and error-correction
\* level.
C5_QuiescentPreviewIsCurrent ==
    (/\ Calm
     /\ mounted
     /\ url # <<>>
     /\ validateUrl(url)
     /\ ~EncoderThrows(sanitizeUrl(url), options))
    => (/\ QrShown
        /\ KeyOf(Displayed) = KeyOf(Encode(sanitizeUrl(url), options)))

\* a step in which a pending encoder call ends by throwing
EncoderThrew ==
    /\ Len(inflight') < Len(inflight)
    /\ lastGen' = "threw"

\* C9: in the state that follows a throw of the encoder the error is shown
\* and no QR is displayed.
C9_ThrowClearsPreview ==
    [][EncoderThrew => (toast' = "Generation Failed" /\ ~QrShown')]_vars

\* a file that every step of an upload accepts: validation, decoding and the
\* dimension floor and ceiling of the implementation
PassesEveryStep(f) ==
    CASE impl = "enterprise" ->
             /\ validateFileUpload(f).isValid
             /\ f.decodes
             /\ f.width >= 32 /\ f.height >= 32
             /\ f.width <= 4096 /\ f.height <= 4096
      [] impl = "baseline" ->
             /\ validateFileUploadBaseline(f).isValid
             /\ f.decodes
             /\ f.width >= 16 /\ f.height >= 16
             /\ f.width <= 2048 /\ f.height <= 2048
      [] OTHER -> processLogoFileError(f) = ""

\* the asset an upload of f ends with
AssetOf(f) == IF impl = "enterprise" THEN optimizeImage(f) ELSE readAsDataURL(f)

\* C6: the logo changes only in the step that ends an upload, after its last
\* await, of a file that passes every step, and then to the asset of that
\* file; the only other change is the removal of the logo.  An upload that
\* fails at any step leaves the logo as it was.
C6_LogoChangesOnlyOnSuccess ==
    [][logo' # logo =>
        \/ logo' = NoLogo /\ uploads' = uploads
        \/ \E i \in 1..Len(uploads) :
              /\ uploads' = RemoveAt(uploads, i)
              /\ uploads[i].pc \in {"optimize", "read"}
              /\ PassesEveryStep(uploads[i].file)
              /\ logo' = AssetOf(uploads[i].file)]_vars

FailureToasts ==
    {"Invalid File", "Upload Failed", "Image Too Small", "Image Too Large",
     "Invalid Image", "File too large", "Invalid file type"}

\* an upload has failed while a logo of an earlier upload is in place
C6_Witness ==
    /\ logo # NoLogo
    /\ toast \in FailureToasts
    /\ uploads = <<>>

\* C7: when no upload is running and no delayed revoke is pending, every
\* object URL created by the uploads has been revoked.
C7_UploadUrlsRevoked ==
    (uploads = <<>> /\ ~\E t \in timers : t.class = "revoke1000")
    => liveUrls = {}

\* C8: after the component has unmounted no timer is pending and no object
\* URL is unreleased.
C8_UnmountReleasesEverything ==
    ~mounted => (timers = {} /\ liveUrls = {})

LowContrastGeneration(t) ==
    /\ impl \in React
    /\ t \in timers
    /\ t.class \in {"url500", "struct300"}
    /\ timers' = timers \ {t}
    /\ url' = url /\ options' = options /\ mounted' = mounted
    /\ preloads' = preloads /\ qrDataUrl' = qrDataUrl
    /\ Len(inflight') >= Len(inflight)
    /\ t.url # <<>> /\ validateUrl(t.url)
    /\ ~validateColorContrast(t.options.color.dark,
                              t.options.color.light).scannable

\* a step in which the encoder call at position i, made for colours that are
\* not scannable, returns its output to the mounted component
LowContrastOutput(i) ==
    /\ impl \in React
    /\ mounted
    /\ i \in 1..Len(inflight)
    /\ ~inflight[i].scannable
    /\ inflight' = Complete(inflight, i, TRUE)
    /\ lastGen' = "ok"

\* C11: for a valid URL a colour pair that is not scannable does not block
\* generation: generateQRWithValidation shows the contrast warning and still
\* invokes the encoder for the sanitized URL, and when the encoder returns
\* its output is stored in qrDataUrl and handed to updateQrDisplay.
C11_LowContrastStillGenerates ==
    [][ /\ \A t \in timers :
             LowContrastGeneration(t)
             => /\ toast' = "Color Contrast Warning"
                /\ inflight' = Append(inflight,
                       [text |-> sanitizeUrl(t.url),
                        options |-> MaskOptions(t.options),
                        scannable |-> FALSE, superseded |-> FALSE])
        /\ \A i \in 1..Len(inflight) :
             LowContrastOutput(i)
             => LET qrString == Encode(inflight[i].text, inflight[i].options)
                IN  /\ qrDataUrl' = qrString
                    /\ toast' = "QR Code Generated with Warning"
                    /\ \E j \in 1..Len(preloads') : preloads'[j].qr = qrString
      ]_vars

\* a QR generated for colours that are not scannable is the one displayed
C11_Witness ==
    /\ impl \in React
    /\ mounted
    /\ url # <<>> /\ validateUrl(url)
    /\ ~validateColorContrast(options.color.dark, options.color.light).scannable
    /\ toast = "QR Code Generated with Warning"
    /\ qrDataUrl = Encode(sanitizeUrl(url), MaskOptions(options))
    /\ displayQrUrl = qrDataUrl

\* the bounds of the size control: 128..512, 128..1024 in the baseline
\* component
WidthCeiling == IF impl = "baseline" THEN 1024 ELSE 512

\* C12: in every reachable state of every implementation options.width and
\* options.margin lie within their bounds (width 128..512, 128..1024 in the
\* baseline component; margin 0..10), whatever the user enters in the size
\* and margin controls.
C12_OptionsWithinBounds ==
    /\ options.width \in 128..WidthCeiling
    /\ options.margin \in 0..10

\* C13: when a color text field loses focus while holding text that is not a
\* valid hex color, its option is reset to the last valid value it held
\* before the invalid text was typed; after any blur the stored color is a
\* valid 3- or 6-digit hex string.
C13_BlurRestoresLastValid ==
    [][ \A f \in ColorFields :
          (focusLost' = f /\ (focusLost # f \/ options' # options))
          => /\ validateHexColor(options'.color[f])
             /\ ~validateHexColor(options.color[f])
                => options'.color[f] = lastValid[f]
      ]_vars

\* C14: validateNumericInput(raw, min, max, default), for min <= default <=
\* max: an empty or blank raw gives isValid and the default; a raw that is
\* not a number (an optional sign and digits, blanks around them) gives
\* ~isValid and the default; a number outside [min, max] gives ~isValid and
\* the nearer bound; a number inside gives isValid and the number.  In every
\* case parsedValue is within [min, max].
C14_NumericInputCases ==
    (result.returned /\ args.fn = "validateNumericInput")
    => LET raw     == args.value
           r       == result.value
           inked   == {i \in DOMAIN raw : raw[i] # Space}
           first   == CHOOSE i \in inked : \A k \in inked : i <= k
           last    == CHOOSE i \in inked : \A k \in inked : i >= k
           core    == IF inked = {} THEN <<>> ELSE SubSeq(raw, first, last)
           neg     == core # <<>> /\ core[1] = Minus
           body    == IF neg THEN Tail(core) ELSE core
           numeric == body # <<>> /\ \A i \in DOMAIN body : body[i] \in 0..9
           n       == IF neg THEN 0 - DecValue(body) ELSE DecValue(body)
       IN  /\ r.parsedValue \in args.min..args.max
           /\ core = <<>>
              => r.isValid /\ r.parsedValue = args.defaultValue
           /\ (core # <<>> /\ ~numeric)
              => ~r.isValid /\ r.parsedValue = args.defaultValue
           /\ (numeric /\ n < args.min)
              => ~r.isValid /\ r.parsedValue = args.min
           /\ (numeric /\ n > args.max)
              => ~r.isValid /\ r.parsedValue = args.max
           /\ (numeric /\ n \in args.min..args.max)
              => r.isValid /\ r.parsedValue = n

C16_SanitizeIdempotent ==
    (result.returned /\ args.fn = "sanitizeUrl")
    => /\ sanitizeUrl(result.value) = result.value
       /\ result.value # <<>>
       /\ result.value[1] \in Schemes

\* a text with blanks around it and no scheme has been sanitized
C16_Witness ==
    /\ result.returned /\ args.fn = "sanitizeUrl"
    /\ Trim(args.input) # args.input
    /\ Trim(args.input) # <<>>
    /\ result.value = <<"https://">> \o Trim(args.input)

\* a file name that ends in an executable extension
ExecutableName(name) ==
    name # <<>> /\ ToLowerCase(name)[Len(name)] \in ExecutableExtensions

\* C17: in every implementation a file whose name ends in an executable
\* extension such as .exe is rejected by the upload validation, whatever
\* MIME type and size it declares: no upload of it goes on past the
\* validation and it never becomes the logo.
C17_ExecutableRejected ==
    /\ ~ExecutableName(logo.name)
    /\ \A i \in 1..Len(uploads) : ~ExecutableName(uploads[i].file.name)

C19_PreviewMatchesExport ==
    (result.returned /\ args.fn = "logoGeometry" /\ args.qrSize \in SelectSizes)
    => LET g == result.value
       IN  /\ 2 * g.previewLogoSize - g.logoSize \in -2..2
           /\ 2 * g.previewCirclePadding - g.circlePadding \in -2..2

\* C20: an SVG export follows the logo.  Whenever an SVG file is saved, then
\* with no logo set it is the encoder's vector output in the user's dark and
\* light colors, and with a logo set it is the raster composite of the QR and
\* the logo inside an SVG document whose width, height and viewBox are the QR
\* pixel size; in no implementation does it omit a logo that is set.
C20_SvgFollowsLogo ==
    [][(Len(saved') = Len(saved) + 1
        /\ saved'[Len(saved')].name = FileName("svg"))
       => LET f == saved'[Len(saved')]
          IN  IF logo = NoLogo
              THEN /\ f.body = VectorBody
                   /\ f.canvas.qr.options.color = options.color
                   /\ f.canvas.logo = NoLogo
              ELSE /\ f.body = SvgWrapper(f.canvas.qr.options)
                   /\ f.canvas.qr.options.width = options.width
                   /\ f.canvas.logo = logo]_vars

\* C21: validateColorContrast(dark, light) returns isValid = false with an
\* error and without contrastRatio or scannable when either argument is not
\* a valid hex color; otherwise isValid = true, contrastRatio is
\* (max(L) + 0.05) / (min(L) + 0.05) for the two luminances L, scannable is
\* contrastRatio >= 3, and the warning is present exactly when scannable is
\* false.
C21_ContrastResult ==
    (result.returned /\ args.fn = "validateColorContrast")
    => LET r  == result.value
           Ld == calculateLuminance(args.darkColor)
           Ll == calculateLuminance(args.lightColor)
       IN  IF ~validateHexColor(args.darkColor)
              \/ ~validateHexColor(args.lightColor)
           THEN /\ ~r.isValid /\ r.error # ""
                /\ ~r.hasRatio /\ ~r.hasScannable /\ ~r.warning
           ELSE /\ r.isValid /\ r.error = ""
                /\ r.hasRatio /\ r.hasScannable
                /\ r.num = (IF Ld < Ll THEN Ll ELSE Ld) + 5000000
                /\ r.den = (IF Ld < Ll THEN Ld ELSE Ll) + 5000000
                /\ r.scannable <=> (r.num >= 3 * r.den)
                /\ r.warning <=> ~r.scannable

\* C21 (witness): a call with two valid colors of low contrast, '#00ffff' on
\* '#ffffff', has returned a warning.
C21_Witness ==
    /\ result.returned /\ args.fn = "validateColorContrast"
    /\ args.darkColor = <<Hash, 0, 0, 15, 15, 15, 15>>
    /\ args.lightColor = DefaultLight
    /\ result.value.isValid /\ result.value.warning

\* the channels a valid hex color denotes: '#RGB' is '#RRGGBB'
ActualChannels(hex) ==
    IF Len(hex) = 4
    THEN <<17 * hex[2], 17 * hex[3], 17 * hex[4]>>
    ELSE <<16 * hex[2] + hex[3], 16 * hex[4] + hex[5], 16 * hex[6] + hex[7]>>

\* the 6-digit form of a valid hex color
Expansion(hex) ==
    IF Len(hex) = 4
    THEN <<Hash, hex[2], hex[2], hex[3], hex[3], hex[4], hex[4]>>
    ELSE hex

\* C22: for every color accepted by validateHexColor, calculateLuminance
\* is the luminance of the color's actual channels, those of '#RRGGBB' for
\* a 3-digit '#RGB', so that a color and its 6-digit expansion give the same
\* luminance and the same result of validateColorContrast.
C22_ShortFormDecodesAsLong ==
    /\ (result.returned /\ args.fn = "calculateLuminance")
       => LET c == ActualChannels(args.hex)
          IN  result.value = 2126 * Linear[c[1] + 1] + 7152 * Linear[c[2] + 1]
                             + 722 * Linear[c[3] + 1]
    /\ (result.returned /\ args.fn = "validateColorContrast"
        /\ result.value.isValid)
       => result.value = validateColorContrast(Expansion(args.darkColor),
                                               Expansion(args.lightColor))

ShownQR == IF impl = "vanilla" THEN qrCanvas ELSE displayQrUrl

\* C24: whenever downloadQR produces a file, the URL encoded in the exported
\* QR is the sanitized URL encoded in the QR shown in the preview, also when
\* the URL field was edited after the displayed QR was generated.
C24_ExportEncodesShownUrl ==
    [][Len(saved') = Len(saved) + 1
       => saved'[Len(saved')].canvas.qr.text = ShownQR'.text]_vars

\* C25: in the vanilla page, while the URL field holds an empty or invalid
\* URL (handleURLChange has hidden the QR), the QR is hidden and
\* currentQRData is null: no debounce timer scheduled for an earlier valid
\* URL fires afterwards and displays a QR for a URL that is no longer in
\* the field.
C25_HiddenWhileUrlInvalid ==
    (impl = "vanilla" /\ (url = <<>> \/ ~validateUrl(url)))
    => (qrHidden /\ currentQRData = <<>>)

\* the timers, encoder calls and pre-loads the model can hold at a time are
\* used up: work is pending and none of it can go on
PoolsExhausted ==
    /\ ~Calm
    /\ ~ENABLED (\/ \E t \in timers : FireReactTimer(t)
                 \/ \E i \in 1..MaxPending : ReactEncoderDone(i)
                 \/ \E i \in 1..MaxPending : PreloadDone(i))

\* C26: after the last change of an input the React component invokes the
\* encoder finitely many times and then rests: eventually, and from then on
\* for ever, no regeneration timer is pending, no encoder call is in flight
\* and no pre-load is pending (or the pools of the model are used up
\* and the pending work cannot go on).  The 300 ms effect, which depends on
\* qrDataUrl, does not regenerate and reschedule without end.
C26_EventuallyQuiescent == <>[](Calm \/ PoolsExhausted)

\* C26 (witness): the component rests after a generation whose write of
\* qrDataUrl made the 300 ms effect schedule a second generation, which ran.
C26_Witness ==
    /\ impl \in React /\ mounted /\ Calm
    /\ qrDataUrl # NoQR
    /\ lastSched["struct300"] # 0

\* C27: in the enterprise component isUploading is true in every state in
\* which some logo upload is still being processed, also when a second
\* upload was started by a drop while the first was in progress: the
\* completion of one upload does not clear isUploading while another is
\* still running.
C27_UploadingWhileAnyUploadRuns ==
    (impl = "enterprise" /\ mounted /\ uploads # <<>>) => isUploading

\* C28: after handleLogoRemoval the logo and logoInfo stay null until an
\* upload started after the removal succeeds.  No upload starts after a
\* removal in SpecLogoEdit, so there the logo and logoInfo, once null, stay
\* null: an upload that was in flight when the logo was removed does not
\* set them again.
C28_RemovedStaysRemoved ==
    [][(logo = NoLogo /\ logoInfo = NoLogoInfo)
       => (logo' = NoLogo /\ logoInfo' = NoLogoInfo)]_vars

\* C29: the object URL that an upload's dimension check reads is not revoked
\* while the image decode of that upload is pending: neither the start of a
\* later upload nor the 1 s timer of an earlier upload's finally block
\* revokes it.
C29_PendingCheckUrlLive ==
    impl = "enterprise" =>
        \A i \in 1..Len(uploads) :
            uploads[i].pc = "dimcheck" => uploads[i].url \in liveUrls

\* C30: in every implementation, entering a margin m with 0 <= m <= 10 in
\* the margin control sets options.margin to exactly m, m = 0 included; the
\* default 2 is not substituted for a number in the range.
C30_MarginStoredAsEntered ==
    [][\A raw \in RawMargins :
          (/\ SetMargin(raw) \/ VanillaSetMargin(raw)
           /\ DecValue(raw) \in 0..10)
          => options'.margin = DecValue(raw)]_vars

====
